---- MODULE Spec2Model ----
(***************************************************************************)
(* A model of disseqt, the backend-agnostic query and integration engine   *)
(* over MRI pulse-sequence timelines.                                      *)
(*                                                                         *)
(* Times are integers.  In the raster (dsv) backend one unit is one        *)
(* microsecond; in the block (pulseq) backend one unit is one nanosecond,  *)
(* the step by which PulseqSequence::events advances past a hit.  With     *)
(* integer inputs the f64 arithmetic of the code is exact, so ceil, floor  *)
(* and round of quotients are modelled by integer division.  Indices are   *)
(* 0-based as in the code; At(s, i) reads element i of a sequence.         *)
(***************************************************************************)
EXTENDS Integers, Sequences, FiniteSets, TLC

VARIABLES
    samples,   \* raster array handed to Trigger::new
    trigger,   \* outcome of Trigger::new(samples), "unbuilt" before the call
    dsv,       \* the DsvSequence (raster backend)
    pulseq,    \* the PulseqSequence (block backend)
    files,     \* the .dsv files next to the path handed to DsvSequence::load
    call       \* the last query: operation, arguments, result

vars == <<samples, trigger, dsv, pulseq, files, call>>

(***************************************************************************)
(* Generic helpers                                                         *)
(***************************************************************************)
At(s, i) == s[i + 1]

Min2(a, b) == IF a <= b THEN a ELSE b

Max2(a, b) == IF a >= b THEN a ELSE b

SetMin(S) == CHOOSE x \in S : \A y \in S : x <= y

SetMax(S) == CHOOSE x \in S : \A y \in S : x >= y

\* f64::clamp(lo, hi)
Clamp(x, lo, hi) == IF x < lo THEN lo ELSE IF x > hi THEN hi ELSE x

\* floor(a / b) and ceil(a / b) for b > 0
FloorDiv(a, b) == a \div b

CeilDiv(a, b) == -((-a) \div b)

\* round(a / b) for b > 0: half away from zero
RoundDiv(a, b) == IF a >= 0 THEN (2 * a + b) \div (2 * b) ELSE -((2 * (-a) + b) \div (2 * b))

\* `x as usize` of a float: saturating, negative values become 0
AsUsize(x) == IF x < 0 THEN 0 ELSE x

\* The ascending sequence of the elements of a finite set of integers
RECURSIVE SortedSeq(_)
SortedSeq(S) == IF S = {} THEN <<>> ELSE <<SetMin(S)>> \o SortedSeq(S \ {SetMin(S)})

Zeros(k) == [i \in 1..k |-> 0]

Ones(k) == [i \in 1..k |-> 1]

NoCall == [op |-> "none"]

(***************************************************************************)
(* slice::binary_search_by: on a sorted list of keys the result is         *)
(* Ok(index of a match) -- any match when several keys are equal, the      *)
(* standard library does not say which -- or Err(insertion point).         *)
(***************************************************************************)
BinarySearch(keys, x) ==
    LET hits == {i \in 0..Len(keys) - 1 : At(keys, i) = x}
    IN  IF hits # {}
        THEN {[ok |-> TRUE, idx |-> i] : i \in hits}
        ELSE {[ok |-> FALSE, idx |-> Cardinality({i \in 0..Len(keys) - 1 : At(keys, i) < x})]}

(***************************************************************************)
(* backend_dsv/trigger.rs                                                  *)
(***************************************************************************)
\* Trigger window size - amount of zeros that separate pulses
WND == 10

\* A faulty variant of TriggerNew: a window of zeros followed by a non-zero
\* sample reports the index after that sample as the start.
TriggerNewLate(s) ==
    LET n == Len(s)
        head == {i \in 0..Min2(WND - 2, n - 1) : At(s, i) # 0}
        synthStart == IF head # {} THEN <<SetMin(head)>> ELSE <<>>
        winStarts == {i + WND : i \in {i \in 0..n - WND :
                        /\ \A k \in 0..WND - 2 : At(s, i + k) = 0
                        /\ At(s, i + WND - 1) # 0}}
        winEnds == {i \in 0..n - WND :
                        /\ At(s, i) # 0
                        /\ \A k \in 1..WND - 1 : At(s, i + k) = 0}
        tail == {i \in 0..Min2(WND - 2, n - 1) : At(s, n - 1 - i) # 0}
        synthEnd == IF tail # {} THEN <<Min2(n - SetMin(tail), n - 1)>> ELSE <<>>
        starts == synthStart \o SortedSeq(winStarts)
        ends == SortedSeq(winEnds) \o synthEnd
        events == [k \in 1..Len(starts) |-> <<starts[k], ends[k]>>]
    IN  IF ~(n > WND) THEN [status |-> "assert_len", events |-> <<>>]
        ELSE IF Len(starts) # Len(ends) THEN [status |-> "assert_count", events |-> <<>>]
        ELSE IF \E k \in 1..Len(starts) : ~(starts[k] < ends[k])
             THEN [status |-> "assert_start_before_end", events |-> <<>>]
        ELSE IF \E k \in 1..Len(events) - 1 : ~(events[k][2] < events[k + 1][1])
             THEN [status |-> "assert_sorted", events |-> <<>>]
        ELSE [status |-> "ok", events |-> events]


\* The outcome of Trigger::new: the event list, or the assertion that failed.
TriggerNew(s) ==
    LET n == Len(s)
        head == {i \in 0..Min2(WND - 2, n - 1) : At(s, i) # 0}
        synthStart == IF head # {} THEN <<SetMin(head)>> ELSE <<>>
        winStarts == {i + WND - 1 : i \in {i \in 0..n - WND :
                        /\ \A k \in 0..WND - 2 : At(s, i + k) = 0
                        /\ At(s, i + WND - 1) # 0}}
        winEnds == {i \in 0..n - WND :
                        /\ At(s, i) # 0
                        /\ \A k \in 1..WND - 1 : At(s, i + k) = 0}
        tail == {i \in 0..Min2(WND - 2, n - 1) : At(s, n - 1 - i) # 0}
        synthEnd == IF tail # {} THEN <<Min2(n - SetMin(tail), n - 1)>> ELSE <<>>
        starts == synthStart \o SortedSeq(winStarts)
        ends == SortedSeq(winEnds) \o synthEnd
        events == [k \in 1..Len(starts) |-> <<starts[k], ends[k]>>]
    IN  IF ~(n > WND) THEN [status |-> "assert_len", events |-> <<>>]
        ELSE IF Len(starts) # Len(ends) THEN [status |-> "assert_count", events |-> <<>>]
        ELSE IF \E k \in 1..Len(starts) : ~(starts[k] < ends[k])
             THEN [status |-> "assert_start_before_end", events |-> <<>>]
        ELSE IF \E k \in 1..Len(events) - 1 : ~(events[k][2] < events[k + 1][1])
             THEN [status |-> "assert_sorted", events |-> <<>>]
        ELSE [status |-> "ok", events |-> events]

EventStarts(events) == [k \in 1..Len(events) |-> events[k][1]]

NoInterval == <<>>

\* A faulty variant of TriggerSearch: resolves a miss to the interval before the
\* insertion point (largest-not-greater instead of smallest-not-less).
TriggerSearchPrev(events, i_start, r) ==
    IF r.ok THEN At(events, r.idx)
    ELSE IF r.idx > 0 THEN At(events, r.idx - 1)
         ELSE NoInterval

\* Trigger::search, given the result r of the binary search on the starts
TriggerSearch(events, i_start, r) ==
    IF r.ok THEN At(events, r.idx)
    ELSE IF r.idx < Len(events) /\ i_start < At(events, r.idx)[1]
         THEN At(events, r.idx)
         ELSE NoInterval

\* Trigger::events, given the result r of the binary search on the starts
TriggerEvents(events, i_start, i_end, r) ==
    LET idx == IF r.ok THEN r.idx
               ELSE IF r.idx > 0 /\ At(events, r.idx - 1)[2] > i_start
                    THEN r.idx - 1
                    ELSE r.idx
        rest == SubSeq(events, idx + 1, Len(events))
        keep(ev) == i_start < ev[2] /\ ev[1] < i_end
        stop == {k \in 1..Len(rest) : ~keep(rest[k])}
        cnt == IF stop = {} THEN Len(rest) ELSE SetMin(stop) - 1
    IN  SubSeq(rest, 1, cnt)

(***************************************************************************)
(* Raster arrays: runs of non-zero samples separated by runs of zeros.     *)
(* The zero runs take the lengths around the trigger window that decide    *)
(* whether two runs merge, and whether an edge gets a synthetic start/end. *)
(***************************************************************************)
MaxRuns == 2

MaxRunLen == 2

LeadLens == {0, WND - 2, WND - 1, WND}

GapLens == {WND - 2, WND - 1}

TrailLens == {0, 1, WND - 1, WND}

RECURSIVE Runs(_, _)
Runs(k, gaps) ==
    IF k = 0 THEN {<<>>}
    ELSE IF k = 1 THEN {Ones(r) : r \in 1..MaxRunLen}
    ELSE {Ones(r) \o Zeros(g) \o m : r \in 1..MaxRunLen, g \in gaps, m \in Runs(k - 1, gaps)}

RastersOf(leads, gaps, trails) ==
    UNION {{Zeros(a) \o m \o Zeros(b) : a \in leads, b \in trails, m \in Runs(k, gaps)} :
           k \in 0..MaxRuns}

Rasters == RastersOf(LeadLens, GapLens, TrailLens)

Unbuilt == [status |-> "unbuilt", events |-> <<>>]

NoDsv == [status |-> "none"]

NoFiles == [status |-> "none"]

NoPulseq == [status |-> "none"]

(***************************************************************************)
(* The trigger index on its own: construction, point and range lookup.     *)
(* The lookups leave the index as it is, so each is explored once, from    *)
(* the state that follows the construction.                                *)
(***************************************************************************)
TrigInit ==
    /\ samples \in Rasters
    /\ trigger = Unbuilt
    /\ dsv = NoDsv
    /\ pulseq = NoPulseq
    /\ files = NoFiles
    /\ call = NoCall

TrigNew ==
    /\ trigger.status = "unbuilt"
    /\ trigger' = TriggerNew(samples)
    /\ call' = [op |-> "Trigger::new"]
    /\ UNCHANGED <<samples, dsv, pulseq, files>>

\* Indices around the interval bounds and the array ends
QueryIdx(events, n) ==
    {0, n, n + 1} \cup
    UNION {{AsUsize(events[k][1] - 1), events[k][1], events[k][1] + 1,
            events[k][2] - 1, events[k][2], events[k][2] + 1} : k \in 1..Len(events)}

TrigSearch ==
    /\ trigger.status = "ok"
    /\ call.op = "Trigger::new"
    /\ \E i \in 0..Len(samples) + 1 :
         \E r \in BinarySearch(EventStarts(trigger.events), i) :
            call' = [op |-> "Trigger::search", i_start |-> i,
                     ret |-> TriggerSearch(trigger.events, i, r)]
    /\ UNCHANGED <<samples, trigger, dsv, pulseq, files>>

TrigEvents ==
    /\ trigger.status = "ok"
    /\ call.op = "Trigger::new"
    /\ \E i, j \in QueryIdx(trigger.events, Len(samples)) :
         \E r \in BinarySearch(EventStarts(trigger.events), i) :
            call' = [op |-> "Trigger::events", i_start |-> i, i_end |-> j,
                     ret |-> TriggerEvents(trigger.events, i, j, r)]
    /\ UNCHANGED <<samples, trigger, dsv, pulseq, files>>

TrigNext == TrigNew \/ TrigSearch \/ TrigEvents

SpecTrigger == TrigInit /\ [][TrigNext]_vars

(***************************************************************************)
(* C6 -- Trigger completeness: for any raster array Trigger::new detects   *)
(* as many starts as ends, every start strictly precedes its matching end  *)
(* and the intervals are sorted and pairwise non-overlapping, i.e. none of *)
(* the postcondition assertions of Trigger::new fails.                     *)
(***************************************************************************)
C6_TriggerPostconditionsHold ==
    trigger.status \notin {"assert_count", "assert_start_before_end", "assert_sorted"}

(***************************************************************************)
(* C7 -- Trigger::search(i) returns the interval with the lowest start     *)
(* among those whose start index is >= i, and none exactly when every      *)
(* interval starts before i.                                               *)
(***************************************************************************)
C7_SearchFirstAtOrAfter ==
    call.op = "Trigger::search" =>
        LET later == {k \in 1..Len(trigger.events) : trigger.events[k][1] >= call.i_start}
        IN  IF later = {}
            THEN call.ret = NoInterval
            ELSE /\ \E k \in later : call.ret = trigger.events[k]
                 /\ \A k \in later : call.ret[1] <= trigger.events[k][1]

\* a search that starts between two intervals and finds the second one
C7_SearchWitness ==
    /\ call.op = "Trigger::search"
    /\ call.ret # NoInterval
    /\ call.ret[1] > call.i_start
    /\ \E k \in 1..Len(trigger.events) : trigger.events[k][1] < call.i_start

(***************************************************************************)
(* C8 -- Trigger::events(i, j) yields, in ascending order, exactly the     *)
(* intervals that intersect the index range [i, j), the interval bounds    *)
(* being the inclusive indices of the first and last non-zero sample: an   *)
(* interval (s, e) intersects [i, j) iff some index k has s <= k <= e and  *)
(* i <= k < j.  Stated for non-empty ranges, i < j.                        *)
(***************************************************************************)
Intersects(ev, i, j) == \E k \in ev[1]..ev[2] : i <= k /\ k < j

RECURSIVE SelectIntersecting(_, _, _)
SelectIntersecting(events, i, j) ==
    IF events = <<>> THEN <<>>
    ELSE (IF Intersects(Head(events), i, j) THEN <<Head(events)>> ELSE <<>>)
         \o SelectIntersecting(Tail(events), i, j)

C8_EventsExactlyIntersecting ==
    (call.op = "Trigger::events" /\ call.i_start < call.i_end) =>
        call.ret = SelectIntersecting(trigger.events, call.i_start, call.i_end)
(***************************************************************************)
(* backend_dsv/helpers.rs: decompress_shape                                *)
(***************************************************************************)
\* i64::MIN and i64::MAX, the initial lookback values and the ends of the
\* range of a sample (the model checker's integers have 32 bits)
I64Min == -2147483647

I64Max == 2147483647

\* The loop over the samples: a, b are the two samples before the current
\* one, skip the cooldown, deriv the derivative decoded so far.  A negative
\* repeat count cast to usize asks for about 2^64 pushes: the process runs
\* out of memory and never returns.
RECURSIVE DecodeDeriv(_, _, _, _, _)
DecodeDeriv(rest, a, b, skip, deriv) ==
    IF rest = <<>> THEN [aborted |-> FALSE, deriv |-> deriv]
    ELSE LET sample == Head(rest)
         IN  IF a = b /\ skip = 0
             THEN IF sample < 0
                  THEN [aborted |-> TRUE, deriv |-> deriv]
                  ELSE DecodeDeriv(Tail(rest), b, sample, 2,
                                   deriv \o [i \in 1..sample |-> b])
             ELSE DecodeDeriv(Tail(rest), b, sample,
                              IF skip > 0 THEN skip - 1 ELSE skip,
                              Append(deriv, sample))

\* deriv.into_iter().scan(0, |acc, x| { *acc += x; Some(*acc) })
RECURSIVE CumSum(_, _)
CumSum(deriv, acc) ==
    IF deriv = <<>> THEN <<>>
    ELSE <<acc + Head(deriv)>> \o CumSum(Tail(deriv), acc + Head(deriv))

\* `*acc += x` leaves the range of i64 somewhere in the scan
RECURSIVE SumOverflows(_, _)
SumOverflows(deriv, acc) ==
    IF deriv = <<>> THEN FALSE
    ELSE LET x == Head(deriv)
         IN  \/ x > 0 /\ acc > I64Max - x
             \/ x < 0 /\ acc < I64Min - x
             \/ SumOverflows(Tail(deriv), acc + x)

\* A faulty variant of DecompressShape: the length check is missing.
DecompressShapeUnchecked(stream, num_samples) ==
    LET d == DecodeDeriv(stream, I64Min, I64Max, 0, <<>>)
    IN  IF d.aborted THEN [status |-> "abort", shape |-> <<>>]
        ELSE IF SumOverflows(d.deriv, 0) THEN [status |-> "overflow", shape |-> <<>>]
        ELSE [status |-> "ok", shape |-> CumSum(d.deriv, 0)]

\* A sum that leaves i64 panics where overflow checks are compiled in and
\* wraps around otherwise: "overflow" stands for either.
DecompressShape(stream, num_samples) ==
    LET d == DecodeDeriv(stream, I64Min, I64Max, 0, <<>>)
    IN  IF d.aborted THEN [status |-> "abort", shape |-> <<>>]
        ELSE IF Len(d.deriv) # num_samples THEN [status |-> "panic", shape |-> <<>>]
        ELSE IF SumOverflows(d.deriv, 0) THEN [status |-> "overflow", shape |-> <<>>]
        ELSE [status |-> "ok", shape |-> CumSum(d.deriv, 0)]

MaxStreamLen == 4

MaxSample == 2

\* Streams of small samples, and the same behind a first sample of i64::MAX
SmallStreams(n) == UNION {[1..k -> -1..MaxSample] : k \in 0..n}

Streams ==
    SmallStreams(MaxStreamLen) \cup {<<I64Max>> \o s : s \in SmallStreams(MaxStreamLen - 1)}

DecompInit ==
    /\ samples = <<>>
    /\ trigger = Unbuilt
    /\ dsv = NoDsv
    /\ pulseq = NoPulseq
    /\ files = NoFiles
    /\ call = NoCall

Decompress ==
    /\ call.op = "none"
    /\ \E stream \in Streams, n \in 0..MaxStreamLen + MaxSample :
            call' = [op |-> "decompress_shape", samples |-> stream, num_samples |-> n,
                     ret |-> DecompressShape(stream, n)]
    /\ UNCHANGED <<samples, trigger, dsv, pulseq, files>>

DecompNext == Decompress

SpecDecompress == DecompInit /\ [][DecompNext]_vars

(***************************************************************************)
(* The reference reading of the stream: sample k (1-based) is a repeat     *)
(* count iff its two predecessors in the stream are equal and neither of   *)
(* its two predecessors was itself a repeat count.                         *)
(***************************************************************************)
RECURSIVE IsCount(_, _)
IsCount(stream, k) ==
    /\ k >= 3
    /\ stream[k - 1] = stream[k - 2]
    /\ ~IsCount(stream, k - 1)
    /\ ~IsCount(stream, k - 2)

RECURSIVE RunLengthDecodedLen(_, _)
RunLengthDecodedLen(stream, k) ==
    IF k = 0 THEN 0
    ELSE RunLengthDecodedLen(stream, k - 1) + (IF IsCount(stream, k) THEN stream[k] ELSE 1)

NegativeCount(stream) == \E k \in 1..Len(stream) : IsCount(stream, k) /\ stream[k] < 0

\* The stream behind the two initial lookback values of the decoder
Lookback(stream) == <<I64Min, I64Max>> \o stream

\* The length of the derivative the decoder reads off the stream
DecodedLen(stream) == RunLengthDecodedLen(Lookback(stream), Len(stream) + 2) - 2

(***************************************************************************)
(* C10 -- decompress_shape(stream, n) either returns a sequence of exactly *)
(* n values, or fails fatally; it fails whenever the run-length-decoded    *)
(* length differs from n and never returns a sequence of another length.   *)
(***************************************************************************)
C10_DecompressExactLength ==
    call.op = "decompress_shape" =>
        /\ call.ret.status \in {"ok", "panic", "abort", "overflow"}
        /\ call.ret.status = "ok" =>
              /\ Len(call.ret.shape) = call.num_samples
              /\ DecodedLen(call.samples) = call.num_samples
        /\ call.ret.status = "overflow" => DecodedLen(call.samples) = call.num_samples
        /\ (/\ ~NegativeCount(Lookback(call.samples))
            /\ DecodedLen(call.samples) # call.num_samples)
              => call.ret.status = "panic"

\* a stream with a repeat count is expanded to the declared length
C10_DecompressWitness ==
    /\ call.op = "decompress_shape"
    /\ call.ret.status = "ok"
    /\ \E k \in 1..Len(call.samples) : IsCount(call.samples, k) /\ call.samples[k] > 1
    /\ Len(call.ret.shape) > Len(call.samples)

(***************************************************************************)
(* backend_dsv: the raster backend.  One time unit is one microsecond.     *)
(***************************************************************************)
\* usize::MAX, the max_count that does not limit (sequence.rs)
UsizeMax == 2147483647

\* 10e-6 seconds, the ADC sample spacing of Adc::events without a resolution
TenMicros == 10

NoTime == <<>>

None == <<>>

Some(x) == <<x>>

\* (lo..hi) as the ascending sequence lo, lo + step, ... below hi
RangeStep(lo, hi, step) ==
    [k \in 1..(IF hi > lo THEN CeilDiv(hi - lo, step) ELSE 0) |-> lo + (k - 1) * step]

\* A faulty variant of Take: it keeps the last n elements
TakeLast(s, n) == SubSeq(s, Len(s) - Min2(Len(s), n) + 1, Len(s))

Take(s, n) == SubSeq(s, 1, Min2(Len(s), n))

RfDuration(rf) == rf.time_step * Len(rf.amplitude)

RfEvents(rf, t_start, t_end, max_count) ==
    LET i_start == AsUsize(CeilDiv(t_start, rf.time_step))
        i_end == AsUsize(CeilDiv(t_end, rf.time_step))
        idx == Take(RangeStep(i_start, i_end, 1), max_count)
    IN  [k \in 1..Len(idx) |-> idx[k] * rf.time_step]

RfEncounter(rf, t_start) ==
    LET i_start == AsUsize(CeilDiv(t_start, rf.time_step))
    IN  {IF ev = NoInterval THEN NoTime
         ELSE <<ev[1] * rf.time_step, (ev[2] + 1) * rf.time_step>> :
         ev \in {TriggerSearch(rf.events, i_start, r) :
                 r \in BinarySearch(EventStarts(rf.events), i_start)}}

GradDuration(g) == g.time_step * Len(g.amplitude)

GradEvents(g, t_start, t_end, max_count) ==
    LET i_start == AsUsize(CeilDiv(t_start, g.time_step))
        i_end == AsUsize(CeilDiv(t_end, g.time_step))
        idx == Take(RangeStep(i_start, i_end, 1), max_count)
    IN  [k \in 1..Len(idx) |-> idx[k] * g.time_step]

GradEncounter(g, t_start) ==
    LET i_start == AsUsize(CeilDiv(t_start, g.time_step))
    IN  {IF ev = NoInterval THEN NoTime
         ELSE <<ev[1] * g.time_step, (ev[2] + 1) * g.time_step>> :
         ev \in {TriggerSearch(g.events, i_start, r) :
                 r \in BinarySearch(EventStarts(g.events), i_start)}}

AdcDuration(adc) == adc.time_step * Len(adc.active)

AdcEncounter(adc, t_start) ==
    LET i_start == AsUsize(CeilDiv(t_start, adc.time_step))
    IN  {IF ev = NoInterval THEN NoTime
         ELSE <<ev[1] * adc.time_step, (ev[2] + 1) * adc.time_step>> :
         ev \in {TriggerSearch(adc.events, i_start, r) :
                 r \in BinarySearch(EventStarts(adc.events), i_start)}}

\* The sample times one trigger event adds to the `have` already collected.
\* With a resolution the model keeps 2 * res a divisor of the time step, so
\* that (i + 0.5) * dwell is a whole number of microseconds.
AdcEventSamples(adc, event, i_start, i_end, max_count, have) ==
    LET a == Max2(i_start, event[1])
        b == Min2(i_end, event[2])
    IN  IF adc.resolution # None
        THEN LET res == adc.resolution[1]
                 adc_start == a * adc.time_step
                 adc_end == (b + 1) * adc.time_step
                 n == Min2(res, max_count - have)
             IN  [k \in 1..n |->
                    adc_start + ((2 * (k - 1) + 1) * (adc_end - adc_start)) \div (2 * res)]
        ELSE LET step == Max2(TenMicros \div adc.time_step, 1)
                 idx == Take(RangeStep(a + step \div 2, b + 1, step), max_count - have)
             IN  [k \in 1..Len(idx) |-> idx[k] * adc.time_step]

RECURSIVE AdcCollect(_, _, _, _, _, _)
AdcCollect(adc, events, i_start, i_end, max_count, acc) ==
    IF events = <<>> THEN acc
    ELSE AdcCollect(adc, Tail(events), i_start, i_end, max_count,
           acc \o AdcEventSamples(adc, Head(events), i_start, i_end, max_count, Len(acc)))

AdcEvents(adc, t_start, t_end, max_count) ==
    LET i_start == AsUsize(CeilDiv(t_start, adc.time_step))
        i_end == AsUsize(FloorDiv(t_end, adc.time_step))
    IN  {AdcCollect(adc, TriggerEvents(adc.events, i_start, i_end, r),
                    i_start, i_end, max_count, <<>>) :
         r \in BinarySearch(EventStarts(adc.events), i_start)}

EventTypes == {"RfPulse", "Adc", "GradientX", "GradientY", "GradientZ"}

DsvDuration(d) ==
    SetMax({RfDuration(d.rf), GradDuration(d.gx), GradDuration(d.gy),
            GradDuration(d.gz), AdcDuration(d.adc)})

\* the possible results of DsvSequence::events
DsvEvents(d, ty, t_start, t_end, max_count) ==
    CASE ty = "RfPulse" -> {RfEvents(d.rf, t_start, t_end, max_count)}
      [] ty = "Adc" -> AdcEvents(d.adc, t_start, t_end, max_count)
      [] ty = "GradientX" -> {GradEvents(d.gx, t_start, t_end, max_count)}
      [] ty = "GradientY" -> {GradEvents(d.gy, t_start, t_end, max_count)}
      [] ty = "GradientZ" -> {GradEvents(d.gz, t_start, t_end, max_count)}

\* the possible results of DsvSequence::encounter
DsvEncounter(d, t_start, ty) ==
    CASE ty = "RfPulse" -> RfEncounter(d.rf, t_start)
      [] ty = "Adc" -> AdcEncounter(d.adc, t_start)
      [] ty = "GradientX" -> GradEncounter(d.gx, t_start)
      [] ty = "GradientY" -> GradEncounter(d.gy, t_start)
      [] ty = "GradientZ" -> GradEncounter(d.gz, t_start)

(***************************************************************************)
(* Raster sequences as loaded: every channel on the same raster array m    *)
(* (one that Trigger::new accepts), the gradients with their own sample    *)
(* values, the Z gradient one sample longer and silent.  The RF phase file *)
(* is absent, so the phase is zero throughout.                             *)
(***************************************************************************)
MaxRes == 2

TimeSteps == {4, 12}

DsvRasters ==
    {m \in RastersOf({0, WND - 1}, {WND - 1}, {0, 1, WND - 1}) : TriggerNew(m).status = "ok"}

Resolutions(ts) == {None} \cup {Some(res) : res \in {r \in 2..MaxRes : ts % (2 * r) = 0}}

MkRf(m, ts) ==
    [amplitude |-> m, phase |-> Zeros(Len(m)), time_step |-> ts,
     events |-> TriggerNew(m).events]

MkGrad(a, ts) == [amplitude |-> a, time_step |-> ts, events |-> TriggerNew(a).events]

MkAdc(m, ts, res) ==
    [active |-> [i \in 1..Len(m) |-> m[i] > 0], phase |-> Zeros(Len(m)),
     time_step |-> ts, events |-> TriggerNew(m).events, resolution |-> res]

MkDsv(m, ts, res) ==
    [status |-> "ok",
     rf |-> MkRf(m, ts),
     gx |-> MkGrad([i \in 1..Len(m) |-> m[i] * (1 + (i % 3))], ts),
     gy |-> MkGrad([i \in 1..Len(m) |-> -m[i]], ts),
     gz |-> MkGrad(Zeros(Len(m) + 1), ts),
     adc |-> MkAdc(m, ts, res)]

DsvInit ==
    /\ samples = <<>>
    /\ trigger = Unbuilt
    /\ \E m \in DsvRasters, ts \in TimeSteps :
         \E res \in Resolutions(ts) : dsv = MkDsv(m, ts, res)
    /\ pulseq = NoPulseq
    /\ files = NoFiles
    /\ call = NoCall

\* Query times: on and between the raster points around the interval bounds
DsvTimes(d) ==
    {-1} \cup {i * d.rf.time_step + off :
               i \in QueryIdx(d.rf.events, Len(d.rf.amplitude)) \cup {Len(d.rf.amplitude) + 3},
               off \in {0, d.rf.time_step \div 2}}

MaxCounts == {1, 2, UsizeMax}

DsvDurationCall ==
    /\ dsv.status = "ok"
    /\ call.op = "none"
    /\ call' = [op |-> "duration", ret |-> DsvDuration(dsv)]
    /\ UNCHANGED <<samples, trigger, dsv, pulseq, files>>

DsvEventsCall ==
    /\ dsv.status = "ok"
    /\ call.op = "none"
    /\ \E ty \in EventTypes, t_start, t_end \in DsvTimes(dsv), max_count \in MaxCounts :
         \E ret \in DsvEvents(dsv, ty, t_start, t_end, max_count) :
            call' = [op |-> "events", ty |-> ty, t_start |-> t_start, t_end |-> t_end,
                     max_count |-> max_count, ret |-> ret]
    /\ UNCHANGED <<samples, trigger, dsv, pulseq, files>>

DsvEncounterCall ==
    /\ dsv.status = "ok"
    /\ call.op = "none"
    /\ \E ty \in EventTypes, t_start \in DsvTimes(dsv) :
         \E ret \in DsvEncounter(dsv, t_start, ty) :
            call' = [op |-> "encounter", ty |-> ty, t_start |-> t_start, ret |-> ret]
    /\ UNCHANGED <<samples, trigger, dsv, pulseq, files>>

(***************************************************************************)
(* backend_pulseq: the block backend.  One time unit is the step by which  *)
(* PulseqSequence::events advances past a hit.  A block is a record        *)
(* [duration, rf, gx, gy, gz, adc], every sub-event None or Some(..):      *)
(*   rf   [delay, amp, amp_shape]        (phase and frequency zero)        *)
(*   grad [kind |-> "Trap", amp, rise, flat, fall, delay]                  *)
(*        [kind |-> "Free", amp, delay, shape]                             *)
(*   adc  [delay, dwell, num, freq]      (phase zero)                      *)
(* The durations of the sub-events are those of the parser crate: delay    *)
(* plus the length of the shape.                                           *)
(***************************************************************************)
\* t_next + 1e-9 in PulseqSequence::events
Eps == 1

\* PulseqSequence::from_seq: the blocks with their cumulative start times
RECURSIVE FromSeqScan(_, _)
FromSeqScan(blocks, t_start) ==
    IF blocks = <<>> THEN <<>>
    ELSE <<[start |-> t_start, block |-> Head(blocks)]>>
         \o FromSeqScan(Tail(blocks), t_start + Head(blocks).duration)

FromSeq(blocks, raster) ==
    [status |-> "ok", blocks |-> FromSeqScan(blocks, 0), raster |-> raster]

RECURSIVE SumDurations(_)
SumDurations(blocks) ==
    IF blocks = <<>> THEN 0 ELSE Head(blocks).block.duration + SumDurations(Tail(blocks))

PulseqDuration(p) == SumDurations(p.blocks)

BlockStarts(p) == [k \in 1..Len(p.blocks) |-> p.blocks[k].start]

\* The possible start indices of a scan: the binary search over the block
\* start times, Ok(idx) => idx, Err(idx) => idx.max(1) - 1
AtOrBefore(p, t) ==
    {IF r.ok THEN r.idx ELSE Max2(r.idx, 1) - 1 : r \in BinarySearch(BlockStarts(p), t)}

RfLen(rf) == Len(rf.amp_shape)

RfEventDuration(rf, raster) == rf.delay + RfLen(rf) * raster

GradEventDuration(g, raster) ==
    IF g.kind = "Trap" THEN g.delay + g.rise + g.flat + g.fall
    ELSE g.delay + Len(g.shape) * raster

AdcEventDuration(adc) == adc.delay + adc.num * adc.dwell

\* The sub-event of a block that an event type selects
SubEvent(block, ty) ==
    CASE ty = "RfPulse" -> block.rf
      [] ty = "Adc" -> block.adc
      [] ty = "GradientX" -> block.gx
      [] ty = "GradientY" -> block.gy
      [] ty = "GradientZ" -> block.gz

\* (delay, duration) of the sub-event ev of type ty
DelayAndDuration(ev, ty, raster) ==
    CASE ty = "RfPulse" -> <<ev.delay, RfEventDuration(ev, raster.rf)>>
      [] ty = "Adc" -> <<ev.delay, AdcEventDuration(ev)>>
      [] OTHER -> <<ev.delay, GradEventDuration(ev, raster.grad)>>

\* A faulty variant of EncounterScan: returns the sub-event of the first
\* block that has one, whether or not it starts at or after t_start.
RECURSIVE EncounterScanAny(_, _, _, _)
EncounterScanAny(p, k, t_start, ty) ==
    IF k >= Len(p.blocks) THEN NoTime
    ELSE LET b == At(p.blocks, k)
             ev == SubEvent(b.block, ty)
         IN  IF ev # None
             THEN LET dd == DelayAndDuration(ev[1], ty, p.raster)
                  IN  <<b.start + dd[1], b.start + dd[2]>>
             ELSE EncounterScanAny(p, k + 1, t_start, ty)

\* The loop of PulseqSequence::encounter over blocks[k..]
RECURSIVE EncounterScan(_, _, _, _)
EncounterScan(p, k, t_start, ty) ==
    IF k >= Len(p.blocks) THEN NoTime
    ELSE LET b == At(p.blocks, k)
             ev == SubEvent(b.block, ty)
             dd == DelayAndDuration(ev[1], ty, p.raster)
         IN  IF ev # None /\ b.start + dd[1] >= t_start
             THEN <<b.start + dd[1], b.start + dd[2]>>
             ELSE EncounterScan(p, k + 1, t_start, ty)

\* the possible results of PulseqSequence::encounter
PulseqEncounter(p, t_start, ty) ==
    {EncounterScan(p, k, t_start, ty) : k \in AtOrBefore(p, t_start)}

\* The point of interest of one sub-event at block-relative time t
BlockPoi(ev, ty, t, raster) ==
    CASE ty = "RfPulse" ->
           ev.delay + Clamp(CeilDiv(t - ev.delay, raster.rf), 0, RfLen(ev)) * raster.rf
      [] ty = "Adc" ->
           LET idx == Clamp(CeilDiv(2 * (t - ev.delay) - ev.dwell, 2 * ev.dwell),
                            0, ev.num - 1)
           IN  ev.delay + ((2 * idx + 1) * ev.dwell) \div 2
      [] OTHER ->
           IF ev.kind = "Free"
           THEN ev.delay
                + Clamp(CeilDiv(t - ev.delay, raster.grad), 0, Len(ev.shape)) * raster.grad
           ELSE IF t < ev.delay THEN ev.delay
           ELSE IF t < ev.rise THEN ev.delay + ev.rise
           ELSE IF t < ev.rise + ev.flat THEN ev.delay + ev.rise + ev.flat
           ELSE ev.delay + ev.rise + ev.flat + ev.fall

\* The loop of PulseqSequence::next_poi over blocks[k..]
RECURSIVE NextPoiScan(_, _, _, _)
NextPoiScan(p, k, t_start, ty) ==
    IF k >= Len(p.blocks) THEN None
    ELSE LET b == At(p.blocks, k)
             ev == SubEvent(b.block, ty)
             t == BlockPoi(ev[1], ty, t_start - b.start, p.raster)
         IN  IF ev # None /\ t + b.start >= t_start
             THEN Some(t + b.start)
             ELSE NextPoiScan(p, k + 1, t_start, ty)

\* the possible results of PulseqSequence::next_poi
NextPoi(p, t_start, ty) == {NextPoiScan(p, k, t_start, ty) : k \in AtOrBefore(p, t_start)}

\* The loop of PulseqSequence::events from time t on, pois collected so far.
\* Every binary search of the loop chooses anew among equal block starts.
RECURSIVE EventsLoop(_, _, _, _, _, _)
EventsLoop(p, ty, t, t_end, max_count, pois) ==
    UNION {IF t_next = None THEN {pois}
           ELSE IF t_next[1] >= t_end \/ Len(pois) >= max_count THEN {pois}
           ELSE EventsLoop(p, ty, t_next[1] + Eps, t_end, max_count, Append(pois, t_next[1])) :
           t_next \in NextPoi(p, t, ty)}

\* the possible results of PulseqSequence::events
PulseqEvents(p, ty, t_start, t_end, max_count) ==
    EventsLoop(p, ty, t_start, t_end, max_count, <<>>)

(***************************************************************************)
(* Integration.  An RF amplitude a is a/FullTurn turns per time unit, so   *)
(* amplitude * dur is a flip angle in units of 1/FullTurn turn.  All RF    *)
(* samples have phase zero: the rotations of one integration share their   *)
(* axis, compose by adding their angles, and leave the relaxed spin at     *)
(* (0, -sin A, cos A) for the total angle A.                               *)
(***************************************************************************)
\* one full turn, std::f32::consts::TAU, in angle units
FullTurn == 16

HalfTurn == FullTurn \div 2

QuarterTurn == FullTurn \div 4

\* Spin::angle of the relaxed spin turned by A: acos(cos A)
SpinAngle(A) ==
    LET a == A % FullTurn
    IN  IF a > HalfTurn THEN FullTurn - a ELSE a

\* Spin::phase of the relaxed spin turned by A: atan2(-sin A, 0) + pi/2
SpinPhase(A) ==
    LET a == A % FullTurn
    IN  IF a = 0 \/ a = HalfTurn THEN QuarterTurn
        ELSE IF a < HalfTurn THEN 0
        ELSE HalfTurn

\* A faulty variant of SampleDur: every sample counts with its full dwell
\* time, the boundary samples are not clamped to the interval.
SampleDurFull(t, dwell, t_start, t_end) == dwell

\* The share of the sample window [t, t + dwell) that is integrated
SampleDur(t, dwell, t_start, t_end) ==
    IF t_start <= t /\ t + dwell <= t_end THEN dwell
    ELSE Clamp(t + dwell, t_start, t_end) - Clamp(t, t_start, t_end)

\* f64::clamp panics when min > max: a sample that is neither skipped nor
\* past the end is clamped to [t_start, t_end]
ClampPanics(len, i_start, dwell, t_start, t_end) ==
    /\ t_start > t_end
    /\ \E i \in i_start..len - 1 : ~(i * dwell + dwell < t_start) /\ ~(t_end <= i * dwell)

\* Sum of amplitude[i] * dur over the samples i of the loop in
\* Rf::integrate and Grad::integrate
RECURSIVE RasterSum(_, _, _, _, _)
RasterSum(amplitude, i, time_step, t_start, t_end) ==
    IF i >= Len(amplitude) THEN 0
    ELSE LET t == i * time_step
         IN  IF t + time_step < t_start
             THEN RasterSum(amplitude, i + 1, time_step, t_start, t_end)
             ELSE IF t_end <= t THEN 0
             ELSE At(amplitude, i) * SampleDur(t, time_step, t_start, t_end)
                  + RasterSum(amplitude, i + 1, time_step, t_start, t_end)

\* Grad::integrate
GradIntegrate(g, t_start, t_end) ==
    RasterSum(g.amplitude, AsUsize(FloorDiv(t_start, g.time_step)), g.time_step,
              t_start, t_end)

GradIntegratePanics(g, t_start, t_end) ==
    ClampPanics(Len(g.amplitude), AsUsize(FloorDiv(t_start, g.time_step)), g.time_step,
                t_start, t_end)

\* Rf::integrate: the total angle the spin is turned by
RfIntegrate(rf, t_start, t_end) ==
    RasterSum(rf.amplitude, AsUsize(FloorDiv(t_start, rf.time_step)), rf.time_step,
              t_start, t_end)

RfIntegratePanics(rf, t_start, t_end) ==
    ClampPanics(Len(rf.amplitude), AsUsize(FloorDiv(t_start, rf.time_step)), rf.time_step,
                t_start, t_end)

Panic == [status |-> "panic"]

\* One pass of the loop of DsvSequence::integrate, for the window (t0, t1)
DsvIntegrateOne(d, t0, t1) ==
    IF \/ RfIntegratePanics(d.rf, t0, t1)
       \/ GradIntegratePanics(d.gx, t0, t1)
       \/ GradIntegratePanics(d.gy, t0, t1)
       \/ GradIntegratePanics(d.gz, t0, t1)
    THEN Panic
    ELSE [status |-> "ok",
          pulse |-> [angle |-> SpinAngle(RfIntegrate(d.rf, t0, t1)),
                     phase |-> SpinPhase(RfIntegrate(d.rf, t0, t1))],
          gradient |-> [x |-> GradIntegrate(d.gx, t0, t1),
                        y |-> GradIntegrate(d.gy, t0, t1),
                        z |-> GradIntegrate(d.gz, t0, t1)]]

Moment(m) == [pulse |-> m.pulse, gradient |-> m.gradient]

\* DsvSequence::integrate: one moment per window of two adjacent times
DsvIntegrate(d, time) ==
    LET one == [k \in 1..Len(time) - 1 |-> DsvIntegrateOne(d, time[k], time[k + 1])]
    IN  IF \E k \in 1..Len(one) : one[k].status = "panic" THEN Panic
        ELSE [status |-> "ok", moments |-> [k \in 1..Len(one) |-> Moment(one[k])]]

(***************************************************************************)
(* Block backend integration.  Gradient moments and gradient samples are   *)
(* kept as multiples of 1/Scale, the common denominator 2 * rise * fall of *)
(* the trapezoids, whose rise and fall times are 1 or 2.                   *)
(***************************************************************************)
Scale == 2 * 2 * 2

\* A faulty variant of TrapIntegral: the area under a rectangle, the ramps
\* counted in full.
TrapIntegralRect(t, rise, flat, fall) == Scale * t

\* the closure `integral` of integrate_trap, times Scale
TrapIntegral(t, rise, flat, fall) ==
    IF t <= rise THEN (Scale * t * t) \div (2 * rise)
    ELSE IF t <= rise + flat THEN (Scale * rise) \div 2 + Scale * (t - rise)
    ELSE LET rev_t == rise + flat + fall - t
         IN  (Scale * rise) \div 2 + Scale * flat
             + (Scale * fall) \div 2 - (Scale * rev_t * rev_t) \div (2 * fall)

IntegrateTrap(t_start, t_end, rise, flat, fall) ==
    LET t_max == rise + flat + fall
    IN  TrapIntegral(Clamp(t_end, 0, t_max), rise, flat, fall)
        - TrapIntegral(Clamp(t_start, 0, t_max), rise, flat, fall)

\* the loop of integrate_free from sample i on, times Scale
RECURSIVE IntegrateFreeFrom(_, _, _, _, _)
IntegrateFreeFrom(shape, i, dwell, t_start, t_end) ==
    IF i >= Len(shape) THEN 0
    ELSE LET t == i * dwell
         IN  IF t + dwell <= t_start
             THEN IntegrateFreeFrom(shape, i + 1, dwell, t_start, t_end)
             ELSE IF t_end <= t THEN 0
             ELSE Scale * At(shape, i) * SampleDur(t, dwell, t_start, t_end)
                  + IntegrateFreeFrom(shape, i + 1, dwell, t_start, t_end)

IntegrateFree(t_start, t_end, shape, dwell) ==
    IntegrateFreeFrom(shape, 0, dwell, t_start, t_end)

\* integrate_grad of an optional gradient, nothing for None
IntegrateGrad(gx, t_start, t_end, block_start, grad_raster) ==
    IF gx = None THEN 0
    ELSE LET g == gx[1]
         IN  IF g.kind = "Free"
             THEN g.amp * IntegrateFree(t_start - block_start - g.delay,
                                        t_end - block_start - g.delay, g.shape, grad_raster)
             ELSE g.amp * IntegrateTrap(t_start - block_start - g.delay,
                                        t_end - block_start - g.delay, g.rise, g.flat, g.fall)

\* the loop of integrate_rf from sample i on: the angle the spin is turned by
RECURSIVE IntegrateRfFrom(_, _, _, _, _, _)
IntegrateRfFrom(rf, i, t_start, t_end, block_start, rf_raster) ==
    IF i >= RfLen(rf) THEN 0
    ELSE LET t == block_start + rf.delay + i * rf_raster
         IN  IF t + rf_raster < t_start
             THEN IntegrateRfFrom(rf, i + 1, t_start, t_end, block_start, rf_raster)
             ELSE IF t_end <= t THEN 0
             ELSE rf.amp * At(rf.amp_shape, i) * SampleDur(t, rf_raster, t_start, t_end)
                  + IntegrateRfFrom(rf, i + 1, t_start, t_end, block_start, rf_raster)

IntegrateRf(rf, t_start, t_end, block_start, rf_raster) ==
    IF rf = None THEN 0 ELSE IntegrateRfFrom(rf[1], 0, t_start, t_end, block_start, rf_raster)

\* The loop of PulseqSequence::integrate over blocks[k..]: the angle and the
\* three gradient moments accumulated
RECURSIVE IntegrateScan(_, _, _, _)
IntegrateScan(p, k, t_start, t_end) ==
    IF k >= Len(p.blocks) \/ At(p.blocks, k).start >= t_end
    THEN [angle |-> 0, x |-> 0, y |-> 0, z |-> 0]
    ELSE LET b == At(p.blocks, k)
             rest == IntegrateScan(p, k + 1, t_start, t_end)
         IN  [angle |-> IntegrateRf(b.block.rf, t_start, t_end, b.start, p.raster.rf)
                        + rest.angle,
              x |-> IntegrateGrad(b.block.gx, t_start, t_end, b.start, p.raster.grad) + rest.x,
              y |-> IntegrateGrad(b.block.gy, t_start, t_end, b.start, p.raster.grad) + rest.y,
              z |-> IntegrateGrad(b.block.gz, t_start, t_end, b.start, p.raster.grad) + rest.z]

\* the possible results of PulseqSequence::integrate(t_start, t_end)
PulseqIntegrateOne(p, t_start, t_end) ==
    LET sign == IF t_end < t_start THEN -1 ELSE 1
        t0 == IF t_end < t_start THEN t_end ELSE t_start
        t1 == IF t_end < t_start THEN t_start ELSE t_end
    IN  {LET sum == IntegrateScan(p, k, t0, t1)
         IN  [pulse |-> [angle |-> sign * SpinAngle(sum.angle),
                         phase |-> sign * SpinPhase(sum.angle)],
              gradient |-> [x |-> sign * sum.x, y |-> sign * sum.y, z |-> sign * sum.z]] :
         k \in AtOrBefore(p, t0)}

\* The possible results of the batch integrate of the Backend impl, for the
\* windows k, k + 1, ... of the time list
RECURSIVE PulseqIntegrateFrom(_, _, _)
PulseqIntegrateFrom(p, time, k) ==
    IF k + 1 > Len(time) THEN {<<>>}
    ELSE {<<m>> \o rest : m \in PulseqIntegrateOne(p, time[k], time[k + 1]),
                          rest \in PulseqIntegrateFrom(p, time, k + 1)}

PulseqIntegrate(p, time) ==
    {[status |-> "ok", moments |-> ms] : ms \in PulseqIntegrateFrom(p, time, 1)}

(***************************************************************************)
(* Sampling                                                                *)
(***************************************************************************)
\* slice::get(index) with a default for an index out of bounds
GetOr(s, index, default) == IF index < Len(s) THEN At(s, index) ELSE default

\* Grad::sample
GradSample(g, t) ==
    IF t < 0 THEN 0 ELSE GetOr(g.amplitude, AsUsize(RoundDiv(t, g.time_step)), 0)

\* the closure of DsvSequence::sample for one time
DsvSampleOne(d, t) ==
    [pulse |-> [amplitude |-> GetOr(d.rf.amplitude, AsUsize(RoundDiv(t, d.rf.time_step)), 0),
                phase |-> GetOr(d.rf.phase, AsUsize(RoundDiv(t, d.rf.time_step)), 0),
                frequency |-> 0,
                shim |-> None],
     gradient |-> [x |-> GradSample(d.gx, t), y |-> GradSample(d.gy, t),
                   z |-> GradSample(d.gz, t)],
     adc |-> [active |-> GetOr(d.adc.active, AsUsize(RoundDiv(t, d.adc.time_step)), FALSE),
              phase |-> GetOr(d.adc.phase, AsUsize(RoundDiv(t, d.adc.time_step)), 0),
              frequency |-> 0]]

\* DsvSequence::sample
DsvSample(d, time) ==
    [status |-> "ok", samples |-> [k \in 1..Len(time) |-> DsvSampleOne(d, time[k])]]

\* trap_sample, times Scale
TrapSample(t, rise, flat, fall) ==
    IF t < 0 THEN 0
    ELSE IF t < rise THEN (Scale * t) \div rise
    ELSE IF t < rise + flat THEN Scale
    ELSE IF t < rise + flat + fall THEN (Scale * ((rise + flat + fall) - t)) \div fall
    ELSE 0

\* sample_grad of an optional gradient, times Scale; zero for None
SampleGrad(t, gx, grad_raster) ==
    IF gx = None THEN 0
    ELSE LET g == gx[1]
         IN  IF g.kind = "Free"
             THEN LET index == AsUsize(CeilDiv(2 * (t - g.delay) - grad_raster,
                                               2 * grad_raster))
                  IN  IF index < Len(g.shape) THEN Scale * g.amp * At(g.shape, index) ELSE 0
             ELSE g.amp * TrapSample(t - g.delay, g.rise, g.flat, g.fall)

\* PulseqSequence::sample(t) once the block is found
SampleBlock(p, block_idx, t) ==
    LET b == At(p.blocks, block_idx)
        rf == b.block.rf
        adc == b.block.adc
        index == AsUsize(CeilDiv(2 * (t - b.start - rf[1].delay) - p.raster.rf,
                                 2 * p.raster.rf))
    IN  [pulse |-> [amplitude |-> IF rf # None /\ index < RfLen(rf[1])
                                  THEN rf[1].amp * At(rf[1].amp_shape, index) ELSE 0,
                    phase |-> 0,
                    frequency |-> 0,
                    shim |-> None],
         gradient |-> [x |-> SampleGrad(t - b.start, b.block.gx, p.raster.grad),
                       y |-> SampleGrad(t - b.start, b.block.gy, p.raster.grad),
                       z |-> SampleGrad(t - b.start, b.block.gz, p.raster.grad)],
         adc |-> IF /\ adc # None
                    /\ b.start + adc[1].delay <= t
                    /\ t <= b.start + adc[1].delay + adc[1].num * adc[1].dwell
                 THEN [active |-> TRUE,
                       phase |-> adc[1].freq * (t - b.start - adc[1].delay),
                       frequency |-> adc[1].freq]
                 ELSE [active |-> FALSE, phase |-> 0, frequency |-> 0]]

\* the possible results of PulseqSequence::sample(t)
PulseqSampleOne(p, t) == {SampleBlock(p, block_idx, t) : block_idx \in AtOrBefore(p, t)}

\* The possible results of the batch sample of the Backend impl, for the
\* times k, k + 1, ... of the list
RECURSIVE PulseqSampleFrom(_, _, _)
PulseqSampleFrom(p, time, k) ==
    IF k > Len(time) THEN {<<>>}
    ELSE {<<s>> \o rest : s \in PulseqSampleOne(p, time[k]),
                          rest \in PulseqSampleFrom(p, time, k + 1)}

PulseqSample(p, time) ==
    {[status |-> "ok", samples |-> ss] : ss \in PulseqSampleFrom(p, time, 1)}

(***************************************************************************)
(* types/vector_types.rs: array of structures to structure of arrays       *)
(***************************************************************************)
SampleVecFrom(value) ==
    [pulse |-> [amplitude |-> [k \in 1..Len(value) |-> value[k].pulse.amplitude],
                phase |-> [k \in 1..Len(value) |-> value[k].pulse.phase],
                frequency |-> [k \in 1..Len(value) |-> value[k].pulse.frequency],
                shim |-> [k \in 1..Len(value) |-> value[k].pulse.shim]],
     gradient |-> [x |-> [k \in 1..Len(value) |-> value[k].gradient.x],
                   y |-> [k \in 1..Len(value) |-> value[k].gradient.y],
                   z |-> [k \in 1..Len(value) |-> value[k].gradient.z]],
     adc |-> [active |-> [k \in 1..Len(value) |-> value[k].adc.active],
              phase |-> [k \in 1..Len(value) |-> value[k].adc.phase],
              frequency |-> [k \in 1..Len(value) |-> value[k].adc.frequency]]]

\* A faulty variant of MomentVecFrom: the gradient vectors lose their first
\* element.
MomentVecFromTail(value) ==
    [pulse |-> [angle |-> [k \in 1..Len(value) |-> value[k].pulse.angle],
                phase |-> [k \in 1..Len(value) |-> value[k].pulse.phase]],
     gradient |-> [x |-> [k \in 1..Len(value) - 1 |-> value[k + 1].gradient.x],
                   y |-> [k \in 1..Len(value) - 1 |-> value[k + 1].gradient.y],
                   z |-> [k \in 1..Len(value) - 1 |-> value[k + 1].gradient.z]]]

MomentVecFrom(value) ==
    [pulse |-> [angle |-> [k \in 1..Len(value) |-> value[k].pulse.angle],
                phase |-> [k \in 1..Len(value) |-> value[k].pulse.phase]],
     gradient |-> [x |-> [k \in 1..Len(value) |-> value[k].gradient.x],
                   y |-> [k \in 1..Len(value) |-> value[k].gradient.y],
                   z |-> [k \in 1..Len(value) |-> value[k].gradient.z]]]

(***************************************************************************)
(* The facade over the raster backend: batch integrate and sample, with    *)
(* the conversion of the result to a structure of arrays.                  *)
(***************************************************************************)
MaxBatch == 3

\* Lists of at most n elements of S
Lists(S, n) == UNION {[1..k -> S] : k \in 0..n}

\* Batch times: before, on, inside and after the samples of the first
\* interval, before time zero and past the end
BatchTimes(d) ==
    LET ts == d.rf.time_step
        idx == IF d.rf.events = <<>> THEN {1}
               ELSE {d.rf.events[1][1], d.rf.events[1][1] + 1, d.rf.events[1][2] + 1}
    IN  {-1, DsvDuration(d) + 1} \cup {i * ts + off : i \in idx, off \in {-(ts \div 2), 0}}

DsvIntegrateCall ==
    /\ dsv.status = "ok"
    /\ call.op = "none"
    /\ \E time \in Lists(BatchTimes(dsv), MaxBatch) :
         LET ret == DsvIntegrate(dsv, time)
         IN  call' = [op |-> "integrate", time |-> time, ret |-> ret,
                      vec |-> IF ret.status = "ok" THEN MomentVecFrom(ret.moments) ELSE None]
    /\ UNCHANGED <<samples, trigger, dsv, pulseq, files>>

DsvSampleCall ==
    /\ dsv.status = "ok"
    /\ call.op = "none"
    /\ \E time \in Lists(BatchTimes(dsv), MaxBatch - 1) :
         LET ret == DsvSample(dsv, time)
         IN  call' = [op |-> "sample", time |-> time, ret |-> ret,
                      vec |-> SampleVecFrom(ret.samples)]
    /\ UNCHANGED <<samples, trigger, dsv, pulseq, files>>

DsvNext ==
    \/ DsvDurationCall
    \/ DsvEventsCall
    \/ DsvEncounterCall
    \/ DsvIntegrateCall
    \/ DsvSampleCall

(***************************************************************************)
(* Block sequences as loaded: one to MaxBlocks blocks, each of one of the  *)
(* three kinds.  Every sub-event lies inside its block and has at least    *)
(* one sample; a block without sub-events may have no duration.            *)
(***************************************************************************)
MaxBlocks == 3

Raster == [rf |-> 2, grad |-> 2]

DelayBlock ==
    [duration |-> 0, rf |-> None, gx |-> None, gy |-> None, gz |-> None, adc |-> None]

ExciteBlock ==
    [duration |-> 6,
     rf |-> Some([delay |-> 1, amp |-> 1, amp_shape |-> <<1, 3>>]),
     gx |-> Some([kind |-> "Free", amp |-> 1, delay |-> 0, shape |-> <<2, 1>>]),
     gy |-> None,
     gz |-> Some([kind |-> "Trap", amp |-> 1, rise |-> 1, flat |-> 2, fall |-> 1,
                  delay |-> 1]),
     adc |-> None]

ReadoutBlock ==
    [duration |-> 6,
     rf |-> None,
     gx |-> Some([kind |-> "Trap", amp |-> 2, rise |-> 2, flat |-> 2, fall |-> 2,
                  delay |-> 0]),
     gy |-> Some([kind |-> "Free", amp |-> -1, delay |-> 2, shape |-> <<1, 3>>]),
     gz |-> None,
     adc |-> Some([delay |-> 2, dwell |-> 2, num |-> 2, freq |-> 1])]

BlockKinds == {DelayBlock, ExciteBlock, ReadoutBlock}

PulseqInit ==
    /\ samples = <<>>
    /\ trigger = Unbuilt
    /\ dsv = NoDsv
    /\ \E n \in 1..MaxBlocks : \E blocks \in [1..n -> BlockKinds] :
         pulseq = FromSeq(blocks, Raster)
    /\ files = NoFiles
    /\ call = NoCall

\* Query times: every time unit from before zero to past the end
PulseqTimes(p) == -1..PulseqDuration(p) + 1

PulseqDurationCall ==
    /\ pulseq.status = "ok"
    /\ call.op = "none"
    /\ call' = [op |-> "duration", ret |-> PulseqDuration(pulseq)]
    /\ UNCHANGED <<samples, trigger, dsv, pulseq, files>>

PulseqEventsCall ==
    /\ pulseq.status = "ok"
    /\ call.op = "none"
    /\ \E ty \in EventTypes, t_start, t_end \in PulseqTimes(pulseq), max_count \in MaxCounts :
         \E ret \in PulseqEvents(pulseq, ty, t_start, t_end, max_count) :
            call' = [op |-> "events", ty |-> ty, t_start |-> t_start, t_end |-> t_end,
                     max_count |-> max_count, ret |-> ret]
    /\ UNCHANGED <<samples, trigger, dsv, pulseq, files>>

PulseqEncounterCall ==
    /\ pulseq.status = "ok"
    /\ call.op = "none"
    /\ \E ty \in EventTypes, t_start \in PulseqTimes(pulseq) :
         \E idx_start \in AtOrBefore(pulseq, t_start) :
            call' = [op |-> "encounter", ty |-> ty, t_start |-> t_start,
                     idx_start |-> idx_start,
                     ret |-> EncounterScan(pulseq, idx_start, t_start, ty)]
    /\ UNCHANGED <<samples, trigger, dsv, pulseq, files>>

PulseqIntegrateCall ==
    /\ pulseq.status = "ok"
    /\ call.op = "none"
    /\ \E time \in Lists(PulseqTimes(pulseq), MaxBatch) :
         \E ret \in PulseqIntegrate(pulseq, time) :
            call' = [op |-> "integrate", time |-> time, ret |-> ret,
                     vec |-> MomentVecFrom(ret.moments)]
    /\ UNCHANGED <<samples, trigger, dsv, pulseq, files>>

PulseqSampleCall ==
    /\ pulseq.status = "ok"
    /\ call.op = "none"
    /\ \E time \in Lists(PulseqTimes(pulseq), MaxBatch - 1) :
         \E ret \in PulseqSample(pulseq, time) :
            call' = [op |-> "sample", time |-> time, ret |-> ret,
                     vec |-> SampleVecFrom(ret.samples)]
    /\ UNCHANGED <<samples, trigger, dsv, pulseq, files>>

PulseqNext ==
    \/ PulseqDurationCall
    \/ PulseqEventsCall
    \/ PulseqEncounterCall
    \/ PulseqIntegrateCall
    \/ PulseqSampleCall

(***************************************************************************)
(* Both backends behind the one query contract.  The queries leave the     *)
(* sequence as it is, so each is explored once, from the loaded sequence.  *)
(***************************************************************************)
Init == DsvInit \/ PulseqInit

Next == DsvNext \/ PulseqNext

Spec == Init /\ [][Next]_vars

(***************************************************************************)
(* The query contract, stated over the last call                           *)
(***************************************************************************)
IsDsv == dsv.status = "ok"

\* duration() of the loaded sequence
Duration == IF IsDsv THEN DsvDuration(dsv) ELSE PulseqDuration(pulseq)

\* The raster channel an event type selects
DsvChannel(d, ty) ==
    CASE ty = "RfPulse" -> d.rf
      [] ty = "Adc" -> d.adc
      [] ty = "GradientX" -> d.gx
      [] ty = "GradientY" -> d.gy
      [] ty = "GradientZ" -> d.gz

\* The active intervals (start, end) of an event type: the trigger intervals
\* of the raster channel, the sub-events of the blocks
ActiveIntervals(ty) ==
    IF IsDsv
    THEN LET ch == DsvChannel(dsv, ty)
         IN  {<<ch.events[k][1] * ch.time_step, (ch.events[k][2] + 1) * ch.time_step>> :
              k \in 1..Len(ch.events)}
    ELSE {<<pulseq.blocks[k].start
              + DelayAndDuration(SubEvent(pulseq.blocks[k].block, ty)[1], ty, pulseq.raster)[1],
            pulseq.blocks[k].start
              + DelayAndDuration(SubEvent(pulseq.blocks[k].block, ty)[1], ty, pulseq.raster)[2]>> :
          k \in {j \in 1..Len(pulseq.blocks) : SubEvent(pulseq.blocks[j].block, ty) # None}}

(***************************************************************************)
(* C1 -- events(type, t_start, t_end, max_count) returns a strictly        *)
(* increasing sequence of times, every value v with t_start <= v < t_end,  *)
(* of at most max_count elements, in both backends.                        *)
(***************************************************************************)
C1_EventsInsideWindow ==
    call.op = "events" =>
        /\ \A k \in 1..Len(call.ret) - 1 : call.ret[k] < call.ret[k + 1]
        /\ \A k \in 1..Len(call.ret) : call.t_start <= call.ret[k] /\ call.ret[k] < call.t_end
        /\ Len(call.ret) <= call.max_count

(***************************************************************************)
(* C2 -- encounter(t, type) returns the earliest active interval of the    *)
(* type whose start is >= t, its start not after its end, and none exactly *)
(* when no interval of the type starts at or after t; an interval that     *)
(* began before t is never returned.                                       *)
(***************************************************************************)
C2_EncounterEarliestFromT ==
    call.op = "encounter" =>
        LET cand == {iv \in ActiveIntervals(call.ty) : iv[1] >= call.t_start}
        IN  IF cand = {} THEN call.ret = NoTime
            ELSE /\ call.ret \in cand
                 /\ call.ret[1] <= call.ret[2]
                 /\ \A iv \in cand : call.ret[1] <= iv[1]

\* t lies inside one interval and the next one is returned
C2_EncounterWitness ==
    /\ call.op = "encounter"
    /\ call.ret # NoTime
    /\ \E iv \in ActiveIntervals(call.ty) : iv[1] < call.t_start /\ call.t_start < iv[2]

(***************************************************************************)
(* C3 -- nothing lies outside [0, duration()]: every time returned by      *)
(* events and both bounds of every interval returned by encounter are in   *)
(* [0, duration()], whatever the arguments, in both backends.              *)
(***************************************************************************)
C3_NothingOutsideDuration ==
    /\ call.op = "events" =>
          \A k \in 1..Len(call.ret) : 0 <= call.ret[k] /\ call.ret[k] <= Duration
    /\ (call.op = "encounter" /\ call.ret # NoTime) =>
          /\ 0 <= call.ret[1] /\ call.ret[1] <= Duration
          /\ 0 <= call.ret[2] /\ call.ret[2] <= Duration

\* The moments one window (t0, t1) can integrate to
IntegrateOnePossible(t0, t1) ==
    IF IsDsv THEN {Moment(DsvIntegrateOne(dsv, t0, t1))} ELSE PulseqIntegrateOne(pulseq, t0, t1)

\* The samples one time can be sampled to
SampleOnePossible(t) ==
    IF IsDsv THEN {DsvSampleOne(dsv, t)} ELSE PulseqSampleOne(pulseq, t)

StrictlyIncreasing(time) == \A k \in 1..Len(time) - 1 : time[k] < time[k + 1]

(***************************************************************************)
(* C4 -- batch results are aligned with the input: integrate over N times  *)
(* returns N-1 moments (none when N < 2), the i-th the moment over         *)
(* [times[i], times[i+1]]; sample over N times returns N samples, the i-th *)
(* for times[i]; after the conversion to a structure of arrays every field *)
(* vector has that length and order.  A window whose start is not before   *)
(* its end is outside the contract of integrate: only for such a list may  *)
(* the call fail instead of returning.                                     *)
(***************************************************************************)
C4_BatchAligned ==
    /\ call.op = "integrate" =>
          /\ StrictlyIncreasing(call.time) => call.ret.status = "ok"
          /\ call.ret.status = "ok" =>
                LET ms == call.ret.moments
                    n == IF Len(call.time) < 2 THEN 0 ELSE Len(call.time) - 1
                IN  /\ Len(ms) = n
                    /\ \A i \in 1..n :
                          ms[i] \in IntegrateOnePossible(call.time[i], call.time[i + 1])
                    /\ call.vec.pulse.angle = [i \in 1..n |-> ms[i].pulse.angle]
                    /\ call.vec.pulse.phase = [i \in 1..n |-> ms[i].pulse.phase]
                    /\ call.vec.gradient.x = [i \in 1..n |-> ms[i].gradient.x]
                    /\ call.vec.gradient.y = [i \in 1..n |-> ms[i].gradient.y]
                    /\ call.vec.gradient.z = [i \in 1..n |-> ms[i].gradient.z]
    /\ call.op = "sample" =>
          LET ss == call.ret.samples
              n == Len(call.time)
          IN  /\ call.ret.status = "ok"
              /\ Len(ss) = n
              /\ \A i \in 1..n : ss[i] \in SampleOnePossible(call.time[i])
              /\ call.vec.pulse.amplitude = [i \in 1..n |-> ss[i].pulse.amplitude]
              /\ call.vec.pulse.phase = [i \in 1..n |-> ss[i].pulse.phase]
              /\ call.vec.pulse.frequency = [i \in 1..n |-> ss[i].pulse.frequency]
              /\ call.vec.pulse.shim = [i \in 1..n |-> ss[i].pulse.shim]
              /\ call.vec.gradient.x = [i \in 1..n |-> ss[i].gradient.x]
              /\ call.vec.gradient.y = [i \in 1..n |-> ss[i].gradient.y]
              /\ call.vec.gradient.z = [i \in 1..n |-> ss[i].gradient.z]
              /\ call.vec.adc.active = [i \in 1..n |-> ss[i].adc.active]
              /\ call.vec.adc.phase = [i \in 1..n |-> ss[i].adc.phase]
              /\ call.vec.adc.frequency = [i \in 1..n |-> ss[i].adc.frequency]

\* three times, two moments that differ, so that their order shows
C4_BatchWitness ==
    /\ call.op = "integrate"
    /\ Len(call.time) = 3
    /\ StrictlyIncreasing(call.time)
    /\ call.ret.status = "ok"
    /\ call.ret.moments[1].gradient.x # call.ret.moments[2].gradient.x
    /\ call.vec.gradient.x = <<call.ret.moments[1].gradient.x, call.ret.moments[2].gradient.x>>

(***************************************************************************)
(* C5 -- gradient integration is additive: for times a < b < c the         *)
(* gradient moment over [a, c] is, on every channel, the sum of the        *)
(* moments over [a, b] and [b, c]; for trapezoids, free shapes and raster  *)
(* channels, also when b lies inside a sample or on a block boundary.      *)
(***************************************************************************)
C5_GradientAdditive ==
    (/\ call.op = "integrate"
     /\ Len(call.time) = 3
     /\ call.time[1] < call.time[2]
     /\ call.time[2] < call.time[3]) =>
        /\ call.ret.status = "ok"
        /\ \A whole \in IntegrateOnePossible(call.time[1], call.time[3]) :
              LET ab == call.ret.moments[1].gradient
                  bc == call.ret.moments[2].gradient
              IN  /\ whole.gradient.x = ab.x + bc.x
                  /\ whole.gradient.y = ab.y + bc.y
                  /\ whole.gradient.z = ab.z + bc.z

\* b splits a sample of a free shape or the ramp of a trapezoid: both parts
\* of the X gradient and of the Y gradient are non-zero
C5_AdditiveWitness ==
    /\ call.op = "integrate"
    /\ Len(call.time) = 3
    /\ call.time[1] < call.time[2]
    /\ call.time[2] < call.time[3]
    /\ call.time[3] - call.time[1] < 4
    /\ call.ret.status = "ok"
    /\ call.ret.moments[1].gradient.x # 0
    /\ call.ret.moments[2].gradient.x # 0
    /\ call.ret.moments[1].gradient.y # 0
    /\ call.ret.moments[2].gradient.y # 0

\* The index of the last block that starts at or before t, 0 if there is none
LastAtOrBefore(p, t) ==
    LET at == {k \in 0..Len(p.blocks) - 1 : At(p.blocks, k).start <= t}
    IN  IF at = {} THEN 0 ELSE SetMax(at)

(***************************************************************************)
(* C9 -- the block lookup returns the index of the last block whose start  *)
(* is <= t (so a block starting exactly at t when there is one) and 0 when *)
(* t precedes every block, for any non-decreasing list of block starts,    *)
(* equal starts (zero-duration blocks) included.                           *)
(***************************************************************************)
C9_AtOrBeforeIsLast ==
    (call.op = "encounter" /\ ~IsDsv) =>
        call.idx_start = LastAtOrBefore(pulseq, call.t_start)

(***************************************************************************)
(* C11 -- every moment returned by integrate has an RF angle in [0, pi]    *)
(* and an RF phase in [0, 2*pi), whatever the order of the two times of    *)
(* its window, in both backends.                                           *)
(***************************************************************************)
C11_AngleAndPhaseInRange ==
    (call.op = "integrate" /\ call.ret.status = "ok") =>
        \A i \in 1..Len(call.ret.moments) :
            /\ 0 <= call.ret.moments[i].pulse.angle
            /\ call.ret.moments[i].pulse.angle <= HalfTurn
            /\ 0 <= call.ret.moments[i].pulse.phase
            /\ call.ret.moments[i].pulse.phase < FullTurn

(***************************************************************************)
(* C12 -- sampling outside the time domain is absorbed: for t < 0 or       *)
(* t > duration(), sample(t) completes and returns the neutral sample:     *)
(* zero RF amplitude, zero gradients on all channels, inactive ADC; in     *)
(* both backends.                                                          *)
(***************************************************************************)
C12_NeutralOutsideDomain ==
    call.op = "sample" =>
        /\ call.ret.status = "ok"
        /\ \A i \in 1..Len(call.time) :
              (call.time[i] < 0 \/ call.time[i] > Duration) =>
                  /\ call.ret.samples[i].pulse.amplitude = 0
                  /\ call.ret.samples[i].gradient.x = 0
                  /\ call.ret.samples[i].gradient.y = 0
                  /\ call.ret.samples[i].gradient.z = 0
                  /\ call.ret.samples[i].adc.active = FALSE

(***************************************************************************)
(* DsvSequence::load                                                       *)
(*                                                                         *)
(* A file is absent (None) or holds its [VALUES] stream and the SAMPLES,   *)
(* HORIDELTA and NOMINALFREQUENCY entries of its [DEFINITIONS].  Files are *)
(* well-formed text; the amplitude step is one.                            *)
(***************************************************************************)
FileNotFound(which_dsv) == [status |-> "FileNotFound", path |-> which_dsv]

\* DsvFile::load followed by decompress_shape, as in RfRaw, AdcRaw and Grad
LoadRaw(fs, which_dsv) ==
    IF fs[which_dsv] = None THEN FileNotFound(which_dsv)
    ELSE LET f == fs[which_dsv][1]
             d == DecompressShape(f.values, f.samples)
         IN  IF d.status # "ok" THEN Panic
             ELSE [status |-> "ok", data |-> d.shape, time_step |-> f.time_step,
                   frequency |-> f.frequency]

\* A faulty variant of RfLoad: the phase file is used without comparing it
\* to the amplitude file.
RfLoadUnchecked(fs) ==
    LET amplitude == LoadRaw(fs, "RFD")
        phase == LoadRaw(fs, "RFP")
        events == TriggerNew(amplitude.data)
    IN  IF amplitude.status # "ok" THEN amplitude
        ELSE IF phase.status = "panic" THEN Panic
        ELSE IF events.status # "ok" THEN Panic
        ELSE [status |-> "ok",
              rf |-> [amplitude |-> amplitude.data,
                      phase |-> IF phase.status = "ok" THEN phase.data
                                ELSE Zeros(Len(amplitude.data)),
                      phase_time_step |-> IF phase.status = "ok" THEN phase.time_step
                                          ELSE amplitude.time_step,
                      time_step |-> amplitude.time_step,
                      frequency |-> amplitude.frequency,
                      events |-> events.events]]

\* Rf::load: an RFP file that cannot be read is replaced by a zero phase.
\* phase_time_step records the time step of the phase array, which the code
\* compares and then drops.
RfLoad(fs) ==
    LET amplitude == LoadRaw(fs, "RFD")
        phase == LoadRaw(fs, "RFP")
        events == TriggerNew(amplitude.data)
    IN  IF amplitude.status # "ok" THEN amplitude
        ELSE IF phase.status = "panic" THEN Panic
        ELSE IF /\ phase.status = "ok"
                /\ \/ Len(amplitude.data) # Len(phase.data)
                   \/ amplitude.time_step # phase.time_step
                   \/ amplitude.frequency # phase.frequency
             THEN Panic
        ELSE IF events.status # "ok" THEN Panic
        ELSE [status |-> "ok",
              rf |-> [amplitude |-> amplitude.data,
                      phase |-> IF phase.status = "ok" THEN phase.data
                                ELSE Zeros(Len(amplitude.data)),
                      phase_time_step |-> amplitude.time_step,
                      time_step |-> amplitude.time_step,
                      frequency |-> amplitude.frequency,
                      events |-> events.events]]

\* Grad::load
GradLoad(fs, which_dsv) ==
    LET raw == LoadRaw(fs, which_dsv)
        events == TriggerNew(raw.data)
    IN  IF raw.status # "ok" THEN raw
        ELSE IF events.status # "ok" THEN Panic
        ELSE [status |-> "ok",
              grad |-> [amplitude |-> raw.data, time_step |-> raw.time_step,
                        events |-> events.events]]

\* Adc::load
AdcLoad(fs, resolution) ==
    LET active == LoadRaw(fs, "ADC")
        phase == LoadRaw(fs, "NC1")
        events == TriggerNew(active.data)
    IN  IF active.status # "ok" THEN active
        ELSE IF phase.status # "ok" THEN phase
        ELSE IF \/ Len(active.data) # Len(phase.data)
                \/ active.time_step # phase.time_step
             THEN Panic
        ELSE IF events.status # "ok" THEN Panic
        ELSE [status |-> "ok",
              adc |-> [active |-> [i \in 1..Len(active.data) |-> active.data[i] > 0],
                       phase |-> phase.data,
                       phase_time_step |-> phase.time_step,
                       time_step |-> active.time_step,
                       events |-> events.events,
                       resolution |-> resolution]]

\* DsvSequence::load: the first failure ends the construction
DsvLoad(fs, resolution) ==
    LET rf == RfLoad(fs)
        gx == GradLoad(fs, "GRX")
        gy == GradLoad(fs, "GRY")
        gz == GradLoad(fs, "GRZ")
        adc == AdcLoad(fs, resolution)
    IN  IF rf.status # "ok" THEN rf
        ELSE IF gx.status # "ok" THEN gx
        ELSE IF gy.status # "ok" THEN gy
        ELSE IF gz.status # "ok" THEN gz
        ELSE IF adc.status # "ok" THEN adc
        ELSE [status |-> "ok", rf |-> rf.rf, gx |-> gx.grad, gy |-> gy.grad,
              gz |-> gz.grad, adc |-> adc.adc]

WhichDsv == {"RFD", "RFP", "GRX", "GRY", "GRZ", "ADC", "NC1"}

\* Thirteen samples: eleven zeros, a one, a zero
PulseFile == [values |-> <<0, 0, 9, 1, -1>>, samples |-> 13, time_step |-> 4,
              frequency |-> 0]

\* Files that differ from PulseFile in length, declared length, time step or
\* frequency; the last one ends on its only non-zero sample
OtherFiles ==
    {[PulseFile EXCEPT !.values = <<0, 0, 8, 1, -1>>, !.samples = 12],
     [PulseFile EXCEPT !.samples = 12],
     [PulseFile EXCEPT !.time_step = 12],
     [PulseFile EXCEPT !.frequency = 1],
     [PulseFile EXCEPT !.values = <<0, 0, 9, 1>>, !.samples = 12]}

FileSets ==
    {fs \in [WhichDsv -> {None, Some(PulseFile)} \cup {Some(f) : f \in OtherFiles}] :
        Cardinality({w \in WhichDsv : fs[w] \notin {None, Some(PulseFile)}}) <= 2}

LoadInit ==
    /\ samples = <<>>
    /\ trigger = Unbuilt
    /\ dsv = NoDsv
    /\ pulseq = NoPulseq
    /\ files \in FileSets
    /\ call = NoCall

Load ==
    /\ call.op = "none"
    /\ dsv.status = "none"
    /\ \E resolution \in {None, Some(MaxRes)} :
         /\ call' = [op |-> "load", resolution |-> resolution,
                     ret |-> DsvLoad(files, resolution).status]
         /\ dsv' = DsvLoad(files, resolution)
    /\ UNCHANGED <<samples, trigger, pulseq, files>>

LoadNext == Load

SpecLoad == LoadInit /\ [][LoadNext]_vars

Missing == {w \in WhichDsv : files[w] = None}

(***************************************************************************)
(* C13: if any companion file of the raster loader (RF amplitude, RF       *)
(* phase, gradient X, Y, Z, ADC-active, ADC-phase) is missing,             *)
(* DsvSequence::load returns the typed FileNotFound failure: it does not   *)
(* panic and it returns no sequence.  The files that are present are       *)
(* well-formed and agree with each other.                                  *)
(***************************************************************************)
C13_MissingFileIsFileNotFound ==
    (/\ call.op = "load"
     /\ Missing # {}
     /\ \A w \in WhichDsv \ Missing : files[w] = Some(PulseFile))
        => dsv.status = "FileNotFound"

(***************************************************************************)
(* C14: in every constructed raster sequence the RF amplitude and phase   *)
(* arrays have the same length and time step, and so have the ADC active   *)
(* and phase arrays; when the loaded files disagree no sequence is         *)
(* returned.                                                               *)
(***************************************************************************)
Disagree(a, b) ==
    /\ files[a] # None
    /\ files[b] # None
    /\ LoadRaw(files, a).status = "ok"
    /\ LoadRaw(files, b).status = "ok"
    /\ \/ Len(LoadRaw(files, a).data) # Len(LoadRaw(files, b).data)
       \/ LoadRaw(files, a).time_step # LoadRaw(files, b).time_step

C14_AmplitudeAndPhaseAgree ==
    call.op = "load" =>
        /\ dsv.status = "ok" =>
              /\ Len(dsv.rf.amplitude) = Len(dsv.rf.phase)
              /\ dsv.rf.time_step = dsv.rf.phase_time_step
              /\ Len(dsv.adc.active) = Len(dsv.adc.phase)
              /\ dsv.adc.time_step = dsv.adc.phase_time_step
        /\ (Disagree("RFD", "RFP") \/ Disagree("ADC", "NC1")) => dsv.status # "ok"

C14_AgreeWitness ==
    /\ call.op = "load"
    /\ dsv.status = "ok"
    /\ files["RFP"] # None
    /\ Len(dsv.rf.amplitude) = Len(dsv.rf.phase)
    /\ Len(dsv.adc.active) = Len(dsv.adc.phase)

(***************************************************************************)
(* C15: integrating with t_start >= t_end is a contract violation:        *)
(* integrate panics instead of returning a moment whenever the start of an *)
(* interval is not strictly before its end.                                *)
(***************************************************************************)
C15_ReversedIntegratePanics ==
    (/\ call.op = "integrate"
     /\ \E i \in 1..Len(call.time) - 1 : call.time[i] >= call.time[i + 1])
        => call.ret.status = "panic"

(***************************************************************************)
(* C16: an array that is zero except for one non-zero run at indices       *)
(* p..=q (p < q), with at least WND - 1 zeros before p and after q, yields *)
(* exactly one trigger interval, (p, q).                                   *)
(***************************************************************************)
NonZero == {i \in 0..Len(samples) - 1 : At(samples, i) # 0}

SingleRun ==
    /\ NonZero # {}
    /\ NonZero = SetMin(NonZero)..SetMax(NonZero)
    /\ SetMin(NonZero) < SetMax(NonZero)
    /\ SetMin(NonZero) >= WND - 1
    /\ Len(samples) - 1 - SetMax(NonZero) >= WND - 1

C16_SingleRunSingleInterval ==
    (trigger.status # "unbuilt" /\ SingleRun) =>
        /\ trigger.status = "ok"
        /\ trigger.events = <<<<SetMin(NonZero), SetMax(NonZero)>>>>

C16_SingleRunWitness ==
    /\ trigger.status = "ok"
    /\ SingleRun
    /\ SetMin(NonZero) > WND - 1
    /\ Len(trigger.events) = 1

(***************************************************************************)
(* C17: integrating a trapezoid over its full support                     *)
(* [0, rise + flat + fall] yields amplitude * (rise/2 + flat + fall/2).    *)
(* Moments are kept times Scale and both sides are doubled.                *)
(***************************************************************************)
AxisMoment(gradient, axis) ==
    CASE axis = "gx" -> gradient.x
      [] axis = "gy" -> gradient.y
      [] axis = "gz" -> gradient.z

\* Interval i of the call is the support of the trapezoid on the axis of block k
FullSupport(i, k, axis) ==
    LET b == pulseq.blocks[k]
    IN  /\ b.block[axis] # None
        /\ b.block[axis][1].kind = "Trap"
        /\ call.time[i] = b.start + b.block[axis][1].delay
        /\ call.time[i + 1] = call.time[i] + b.block[axis][1].rise
                              + b.block[axis][1].flat + b.block[axis][1].fall

C17_TrapFullSupport ==
    (call.op = "integrate" /\ pulseq.status = "ok") =>
        \A i \in 1..Len(call.time) - 1 : \A k \in 1..Len(pulseq.blocks) :
            \A axis \in {"gx", "gy", "gz"} :
                FullSupport(i, k, axis) =>
                    LET g == pulseq.blocks[k].block[axis][1]
                    IN  /\ call.ret.status = "ok"
                        /\ 2 * AxisMoment(call.ret.moments[i].gradient, axis)
                              = Scale * g.amp * (g.rise + 2 * g.flat + g.fall)

C17_TrapWitness ==
    /\ call.op = "integrate"
    /\ pulseq.status = "ok"
    /\ Len(call.time) = 2
    /\ \E k \in 1..Len(pulseq.blocks) :
          /\ k > 1
          /\ FullSupport(1, k, "gx")
          /\ call.ret.status = "ok"
          /\ call.ret.moments[1].gradient.x > 0

(***************************************************************************)
(* Rotations.  Rotation::new(angle, phase) is the matrix of the rotation   *)
(* by angle about the axis (cos phase, sin phase, 0), and it takes the     *)
(* relaxed spin (0, 0, 1) to                                               *)
(*     (sin angle * sin phase, -sin angle * cos phase, cos angle).         *)
(* Rotations about one axis compose by adding their angles, so a spin that *)
(* was only turned about the axis at one phase is kept as the total angle  *)
(* and that phase, both in units of 1/FullTurn turn.                       *)
(***************************************************************************)
\* Spin::relaxed
Relaxed == [turned |-> 0, phase |-> 0]

\* Rotation::new
RotationNew(angle, phase) == [angle |-> angle, phase |-> phase]

\* A faulty variant of MulAssign: the rotation is applied to the relaxed spin
\* instead of the current one.
MulAssignRelaxed(spin, rhs) == [turned |-> rhs.angle % FullTurn, phase |-> rhs.phase]

\* spin *= rotation, for a spin that is relaxed or was turned about rhs.phase
MulAssign(spin, rhs) ==
    [turned |-> (spin.turned + rhs.angle) % FullTurn, phase |-> rhs.phase]

\* Spin::phase: atan2(y, x) + pi/2, plus a full turn if that is negative;
\* atan2(0, 0) = 0 for the spin on the z axis
SpinPhaseAbout(spin) ==
    IF spin.turned = 0 \/ spin.turned = HalfTurn THEN QuarterTurn
    ELSE IF spin.turned < HalfTurn THEN spin.phase
    ELSE (spin.phase + HalfTurn) % FullTurn

MaxSubsamples == 4

RotInit ==
    /\ samples = <<>>
    /\ trigger = Unbuilt
    /\ dsv = NoDsv
    /\ pulseq = NoPulseq
    /\ files = NoFiles
    /\ call = NoCall

\* tests::random_multi_rot up to the loop: the angle below half a turn, the
\* phase, and a number of subsamples that divides the angle
RotBegin ==
    /\ call.op = "none"
    /\ \E angle \in 0..HalfTurn - 1, phase \in 0..FullTurn - 1,
          subsamples \in 1..MaxSubsamples :
         /\ angle % subsamples = 0
         /\ call' = [op |-> "rotate", angle |-> angle, phase |-> phase,
                     subsamples |-> subsamples, done |-> 0, spin |-> Relaxed]
    /\ UNCHANGED <<samples, trigger, dsv, pulseq, files>>

\* one pass of the loop
RotStep ==
    /\ call.op = "rotate"
    /\ call.done < call.subsamples
    /\ call' = [call EXCEPT
                  !.done = @ + 1,
                  !.spin = MulAssign(@, RotationNew(call.angle \div call.subsamples,
                                                    call.phase))]
    /\ UNCHANGED <<samples, trigger, dsv, pulseq, files>>

RotNext == RotBegin \/ RotStep

SpecRotation == RotInit /\ [][RotNext]_vars

RECURSIVE RefDeriv(_, _)
RefDeriv(stream, k) ==
    IF k = 0 THEN <<>>
    ELSE RefDeriv(stream, k - 1)
         \o (IF IsCount(stream, k) THEN [i \in 1..stream[k] |-> stream[k - 1]]
             ELSE <<stream[k]>>)

\* deriv[1] + ... + deriv[j]
RECURSIVE SumTo(_, _)
SumTo(deriv, j) == IF j = 0 THEN 0 ELSE SumTo(deriv, j - 1) + deriv[j]

RefShape(stream) ==
    LET deriv == RefDeriv(stream, Len(stream))
    IN  [j \in 1..Len(deriv) |-> SumTo(deriv, j)]

C20_DecompressEqualsReference ==
    call.op = "decompress_shape" =>
        /\ call.ret.status = "ok" => call.ret.shape = RefShape(call.samples)
        /\ (/\ ~NegativeCount(call.samples)
            /\ Len(RefDeriv(call.samples, Len(call.samples))) = call.num_samples
            /\ ~SumOverflows(RefDeriv(call.samples, Len(call.samples)), 0))
              => call.ret.status = "ok"

(***************************************************************************)
(* C21: every interval (s, e) of Trigger::new marks a maximal non-zero     *)
(* run: samples[s] and samples[e] are non-zero, and the run is bounded on  *)
(* each side by WND - 1 zeros or by the edge of the array.  This includes  *)
(* the synthetic start and end of a run at the edge of the array.          *)
(***************************************************************************)
C21_IntervalsMarkRuns ==
    trigger.status = "ok" =>
        \A k \in 1..Len(trigger.events) :
            LET s == trigger.events[k][1]
                e == trigger.events[k][2]
            IN  /\ At(samples, s) # 0
                /\ At(samples, e) # 0
                /\ \A i \in Max2(0, s - (WND - 1))..s - 1 : At(samples, i) = 0
                /\ \A i \in e + 1..Min2(Len(samples) - 1, e + WND - 1) : At(samples, i) = 0

(***************************************************************************)
(* C22: for a trapezoid gradient with any delay the next point of interest *)
(* at block-relative time t is the earliest of the four corners delay,     *)
(* delay + rise, delay + rise + flat, delay + rise + flat + fall that is   *)
(* >= t.  No corner is skipped: the events of a gradient channel in a      *)
(* window hold every trapezoid corner that lies in the window.             *)
(***************************************************************************)
\* The corner times of the trapezoids of event type ty
TrapCorners(ty) ==
    UNION {LET b == pulseq.blocks[k]
               g == SubEvent(b.block, ty)[1]
           IN  {b.start + g.delay, b.start + g.delay + g.rise,
                b.start + g.delay + g.rise + g.flat,
                b.start + g.delay + g.rise + g.flat + g.fall} :
           k \in {k \in 1..Len(pulseq.blocks) :
                    /\ SubEvent(pulseq.blocks[k].block, ty) # None
                    /\ SubEvent(pulseq.blocks[k].block, ty)[1].kind = "Trap"}}

C22_TrapCornersEnumerated ==
    (/\ call.op = "events"
     /\ pulseq.status = "ok"
     /\ call.ty \in {"GradientX", "GradientY", "GradientZ"}
     /\ call.max_count = UsizeMax) =>
        \A c \in TrapCorners(call.ty) :
            (call.t_start <= c /\ c < call.t_end) =>
                \E i \in 1..Len(call.ret) : call.ret[i] = c

(***************************************************************************)
(* C23: block-backend sampling reads a shape only inside its support.  For *)
(* a time t inside a block but before the start of the block's RF pulse,   *)
(* or of its free-form gradient, sample(t) returns zero RF amplitude, zero *)
(* gradient amplitude for that sub-event, never the value of sample 0 of   *)
(* the shape.                                                              *)
(***************************************************************************)
\* The blocks that time t lies inside
BlocksAround(t) ==
    {k \in 1..Len(pulseq.blocks) :
        /\ pulseq.blocks[k].start <= t
        /\ t < pulseq.blocks[k].start + pulseq.blocks[k].block.duration}

\* t lies before the free-form gradient g of a block starting at start
BeforeFree(g, start, t) == g # None /\ g[1].kind = "Free" /\ t < start + g[1].delay

C23_ZeroBeforeShape ==
    (call.op = "sample" /\ pulseq.status = "ok") =>
        \A i \in 1..Len(call.time) : \A k \in BlocksAround(call.time[i]) :
            LET b == pulseq.blocks[k]
                t == call.time[i]
                smp == call.ret.samples[i]
            IN  /\ (b.block.rf # None /\ t < b.start + b.block.rf[1].delay)
                      => smp.pulse.amplitude = 0
                /\ BeforeFree(b.block.gx, b.start, t) => smp.gradient.x = 0
                /\ BeforeFree(b.block.gy, b.start, t) => smp.gradient.y = 0
                /\ BeforeFree(b.block.gz, b.start, t) => smp.gradient.z = 0

(***************************************************************************)
(* C24: sample-summation integration (RF, free-form and raster gradients)  *)
(* over [t_start, t_end] with t_start < t_end applies exactly the samples  *)
(* whose window [t, t + dwell) overlaps the interval, each for the length  *)
(* of that overlap: samples before t_start and from t_end on add nothing.  *)
(***************************************************************************)
\* The length of the overlap of [a, b) with [lo, hi]
Overlap(a, b, lo, hi) == Max2(0, Min2(b, hi) - Max2(a, lo))

\* Every sample of the shape times the overlap of its window, the first
\* window starting at origin
RECURSIVE OverlapSum(_, _, _, _, _, _)
OverlapSum(shape, n, origin, dwell, lo, hi) ==
    IF n = 0 THEN 0
    ELSE OverlapSum(shape, n - 1, origin, dwell, lo, hi)
         + shape[n] * Overlap(origin + (n - 1) * dwell, origin + n * dwell, lo, hi)

\* The moment of the gradient g of a block, trapezoids as integrated
OverlapGrad(g, start, lo, hi) ==
    IF g = None THEN 0
    ELSE IF g[1].kind = "Free"
    THEN Scale * g[1].amp * OverlapSum(g[1].shape, Len(g[1].shape), start + g[1].delay,
                                       pulseq.raster.grad, lo, hi)
    ELSE g[1].amp * IntegrateTrap(lo - start - g[1].delay, hi - start - g[1].delay,
                                  g[1].rise, g[1].flat, g[1].fall)

RECURSIVE OverlapBlocks(_, _, _, _)
OverlapBlocks(n, axis, lo, hi) ==
    IF n = 0 THEN 0
    ELSE LET b == pulseq.blocks[n]
         IN  OverlapBlocks(n - 1, axis, lo, hi)
             + (IF axis = "rf"
                THEN IF b.block.rf = None THEN 0
                     ELSE b.block.rf[1].amp
                          * OverlapSum(b.block.rf[1].amp_shape, RfLen(b.block.rf[1]),
                                       b.start + b.block.rf[1].delay, pulseq.raster.rf, lo, hi)
                ELSE OverlapGrad(b.block[axis], b.start, lo, hi))

\* The moment of the raster channel ch
OverlapRaster(ch, lo, hi) ==
    OverlapSum(ch.amplitude, Len(ch.amplitude), 0, ch.time_step, lo, hi)

C24_SamplesWeightedByOverlap ==
    (call.op = "integrate" /\ call.ret.status = "ok") =>
        \A i \in 1..Len(call.time) - 1 :
            LET lo == call.time[i]
                hi == call.time[i + 1]
                m == call.ret.moments[i]
                n == Len(pulseq.blocks)
            IN  lo < hi =>
                  IF IsDsv
                  THEN /\ m.pulse.angle = SpinAngle(OverlapRaster(dsv.rf, lo, hi))
                       /\ m.gradient.x = OverlapRaster(dsv.gx, lo, hi)
                       /\ m.gradient.y = OverlapRaster(dsv.gy, lo, hi)
                       /\ m.gradient.z = OverlapRaster(dsv.gz, lo, hi)
                  ELSE /\ m.pulse.angle = SpinAngle(OverlapBlocks(n, "rf", lo, hi))
                       /\ m.gradient.x = OverlapBlocks(n, "gx", lo, hi)
                       /\ m.gradient.y = OverlapBlocks(n, "gy", lo, hi)
                       /\ m.gradient.z = OverlapBlocks(n, "gz", lo, hi)

\* a window inside one raster sample, and one cutting the first and the last
\* sample of a shape
C24_OverlapWitness ==
    /\ call.op = "integrate"
    /\ call.ret.status = "ok"
    /\ Len(call.time) = 3
    /\ call.time[1] < call.time[2]
    /\ call.time[2] < call.time[3]
    /\ call.ret.moments[1].pulse.angle # 0
    /\ call.ret.moments[2].pulse.angle # 0
    /\ call.ret.moments[1].gradient.y # 0
    /\ IsDsv => call.time[3] - call.time[1] < dsv.rf.time_step

(***************************************************************************)
(* The two trapezoid integration routines on their own: integrate_trap of  *)
(* backend_pulseq/helpers.rs (IntegrateTrap above) and of lib.rs.  Times   *)
(* are relative to the start of the trapezoid, results are times Scale.    *)
(***************************************************************************)
\* lib.rs integrate_trap: the end is limited from above, the start from below
LibIntegrateTrap(t_start, t_end, rise, flat, fall) ==
    TrapIntegral(Min2(t_end, rise + flat + fall), rise, flat, fall)
    - TrapIntegral(Max2(t_start, 0), rise, flat, fall)

TrapInit ==
    /\ samples = <<>>
    /\ trigger = Unbuilt
    /\ dsv = NoDsv
    /\ pulseq = NoPulseq
    /\ files = NoFiles
    /\ call = NoCall

\* One call of either routine with t_start < t_end, from before the
\* trapezoid to after it
TrapCall ==
    /\ call.op = "none"
    /\ \E rise \in 1..2, flat \in 0..2, fall \in 1..2 :
         \E t_start, t_end \in -2..rise + flat + fall + 2 :
            /\ t_start < t_end
            /\ \/ call' = [op |-> "helpers::integrate_trap", t_start |-> t_start,
                           t_end |-> t_end, rise |-> rise, flat |-> flat, fall |-> fall,
                           ret |-> IntegrateTrap(t_start, t_end, rise, flat, fall)]
               \/ call' = [op |-> "lib::integrate_trap", t_start |-> t_start,
                           t_end |-> t_end, rise |-> rise, flat |-> flat, fall |-> fall,
                           ret |-> LibIntegrateTrap(t_start, t_end, rise, flat, fall)]
    /\ UNCHANGED <<samples, trigger, dsv, pulseq, files>>

SpecTrap == TrapInit /\ [][TrapCall]_vars

(***************************************************************************)
(* C25: every trapezoid integration routine clamps both ends of the        *)
(* interval to the support [0, rise + flat + fall]: an interval entirely   *)
(* before the trapezoid (t_end <= 0) or entirely after it                  *)
(* (t_start >= rise + flat + fall) yields exactly 0.                       *)
(***************************************************************************)
C25_TrapZeroOutsideSupport ==
    (/\ call.op \in {"helpers::integrate_trap", "lib::integrate_trap"}
     /\ \/ call.t_end <= 0
        \/ call.t_start >= call.rise + call.flat + call.fall)
        => call.ret = 0

(***************************************************************************)
(* C26: with an ADC resolution R on the raster backend and max_count not   *)
(* limiting, events(Adc, t_start, t_end) returns for every detected ADC    *)
(* interval that overlaps the window exactly R evenly spaced sample times, *)
(* all of them inside that interval and inside [t_start, t_end); for an    *)
(* interval that lies in the window the spacing is its duration / R.       *)
(***************************************************************************)
C26_ResolutionSamplesPerInterval ==
    (/\ call.op = "events"
     /\ IsDsv
     /\ call.ty = "Adc"
     /\ dsv.adc.resolution # None
     /\ call.max_count = UsizeMax) =>
        \A k \in 1..Len(dsv.adc.events) :
            LET ts == dsv.adc.time_step
                res == dsv.adc.resolution[1]
                from == dsv.adc.events[k][1] * ts
                to == (dsv.adc.events[k][2] + 1) * ts
                in == {i \in 1..Len(call.ret) : from <= call.ret[i] /\ call.ret[i] < to}
            IN  (from < call.t_end /\ call.t_start < to) =>
                    /\ Cardinality(in) = res
                    /\ \A i \in in : call.t_start <= call.ret[i] /\ call.ret[i] < call.t_end
                    /\ \A i, j \in in : (i + 1 \in in /\ j + 1 \in in) =>
                          call.ret[i + 1] - call.ret[i] = call.ret[j + 1] - call.ret[j]
                    /\ (call.t_start <= from /\ to <= call.t_end) =>
                          \A i \in in : i + 1 \in in =>
                              res * (call.ret[i + 1] - call.ret[i]) = to - from

(***************************************************************************)
(* C27: hitting max_count only truncates: for every backend and event      *)
(* type, events(type, t_start, t_end, k) is the first k elements (or all,  *)
(* if fewer) of events(type, t_start, t_end, unlimited).                   *)
(***************************************************************************)
UnlimitedEvents ==
    IF IsDsv THEN DsvEvents(dsv, call.ty, call.t_start, call.t_end, UsizeMax)
    ELSE PulseqEvents(pulseq, call.ty, call.t_start, call.t_end, UsizeMax)

C27_MaxCountTruncates ==
    call.op = "events" =>
        \E all \in UnlimitedEvents :
            call.ret = SubSeq(all, 1, IF Len(all) < call.max_count
                                      THEN Len(all) ELSE call.max_count)

\* a call that max_count cut short: the unlimited call returns more times
C27_TruncatedWitness ==
    /\ call.op = "events"
    /\ call.max_count # UsizeMax
    /\ Len(call.ret) = call.max_count
    /\ \E all \in UnlimitedEvents : Len(all) > call.max_count
    /\ C27_MaxCountTruncates

(***************************************************************************)
(* C28: event enumeration does not depend on how the window is split: for  *)
(* a <= b <= c and unlimited max_count, events(type, a, b) followed by     *)
(* events(type, b, c) contains no time twice and the concatenation equals  *)
(* events(type, a, c), for every backend and event type.                   *)
(***************************************************************************)
EventsBetween(ty, a, b) ==
    IF IsDsv THEN DsvEvents(dsv, ty, a, b, UsizeMax)
    ELSE PulseqEvents(pulseq, ty, a, b, UsizeMax)

SplitTimes == IF IsDsv THEN DsvTimes(dsv) ELSE PulseqTimes(pulseq)

NoTimeTwice(s) == \A i, j \in 1..Len(s) : i # j => s[i] # s[j]

C28_SplitWindowSameEvents ==
    (call.op = "events" /\ call.max_count = UsizeMax) =>
        \A b \in SplitTimes :
            (call.t_start <= b /\ b <= call.t_end) =>
                \A first \in EventsBetween(call.ty, call.t_start, b),
                   second \in EventsBetween(call.ty, b, call.t_end) :
                    /\ NoTimeTwice(first \o second)
                    /\ first \o second = call.ret

(***************************************************************************)
(* Stepping through a sequence, as the examples do: a loop over encounter  *)
(* that continues at the end of the returned interval (mr0_importer), and  *)
(* a loop over next_event that continues just past the returned time       *)
(* (plot_pulse).  One step of the model is one iteration of the loop.      *)
(***************************************************************************)
MaxSteps == 6

\* while let Some((pulse_start, pulse_end)) = parser.encounter(t, ty) { t = pulse_end }
EncounterLoop ==
    \/ /\ call.op = "none"
       /\ \E ty \in EventTypes :
            call' = [op |-> "encounter_loop", ty |-> ty, t |-> 0, found |-> <<>>,
                     done |-> FALSE]
       /\ UNCHANGED <<samples, trigger, dsv, pulseq, files>>
    \/ /\ call.op = "encounter_loop"
       /\ ~call.done
       /\ Len(call.found) < MaxSteps
       /\ \E r \in (IF IsDsv THEN DsvEncounter(dsv, call.t, call.ty)
                    ELSE PulseqEncounter(pulseq, call.t, call.ty)) :
            call' = IF r = NoTime
                    THEN [call EXCEPT !.done = TRUE]
                    ELSE [call EXCEPT !.found = Append(@, r), !.t = r[2]]
       /\ UNCHANGED <<samples, trigger, dsv, pulseq, files>>

\* The possible results of Sequence::next_event, events(ty, t_start, INFINITY, 1).last():
\* the infinite t_end is a time past t_start and past every sample and block
\* of the sequence, which limits the events of no backend.
NextEvent(t_start, ty) ==
    LET t_end == Max2(t_start, Duration) + 2 * SetMax(TimeSteps)
        rets == IF IsDsv THEN DsvEvents(dsv, ty, t_start, t_end, 1)
                ELSE PulseqEvents(pulseq, ty, t_start, t_end, 1)
    IN  {IF ret = <<>> THEN None ELSE Some(ret[Len(ret)]) : ret \in rets}

\* while let Some(t_sample) = seq.next_event(t, ty) { t = t_sample + 1e-7 }: the
\* loop is entered at some time t0, `last` is the latest answer of next_event
\* (to the question `asked`), and the step past a returned time is one time unit,
\* less than every raster step of the model.  The loop is followed until t is
\* two raster steps past duration().
NextEventLoop ==
    \/ /\ call.op = "none"
       /\ \E ty \in EventTypes, t0 \in (IF IsDsv THEN DsvTimes(dsv) ELSE PulseqTimes(pulseq)) :
            call' = [op |-> "next_event_loop", ty |-> ty, t |-> t0, asked |-> t0,
                     last |-> None, answered |-> FALSE, done |-> FALSE]
       /\ UNCHANGED <<samples, trigger, dsv, pulseq, files>>
    \/ /\ call.op = "next_event_loop"
       /\ ~call.done
       /\ ~call.answered \/ call.t <= Duration + 2 * SetMax(TimeSteps)
       /\ \E r \in NextEvent(call.t, call.ty) :
            call' = IF r = None
                    THEN [call EXCEPT !.done = TRUE, !.asked = call.t, !.last = None,
                                      !.answered = TRUE]
                    ELSE [call EXCEPT !.t = r[1] + 1, !.asked = call.t, !.last = r,
                                      !.answered = TRUE]
       /\ UNCHANGED <<samples, trigger, dsv, pulseq, files>>

StepNext == EncounterLoop \/ NextEventLoop

\* every loop that can take a step eventually takes it
SpecStep == Init /\ [][StepNext]_vars /\ WF_vars(StepNext)

(***************************************************************************)
(* C29: stepping with encounter from t = 0, continuing at the end of the   *)
(* returned interval, returns intervals with strictly increasing starts,   *)
(* returns every active interval of the type exactly once, and after       *)
(* finitely many calls encounter returns none.                             *)
(***************************************************************************)
EncounterStepsSound ==
    call.op = "encounter_loop" =>
        /\ \A i, j \in 1..Len(call.found) : i < j => call.found[i][1] < call.found[j][1]
        /\ \A i \in 1..Len(call.found) : call.found[i] \in ActiveIntervals(call.ty)
        /\ call.done => {call.found[i] : i \in 1..Len(call.found)} = ActiveIntervals(call.ty)

C29_EncounterLoopComplete ==
    /\ []EncounterStepsSound
    /\ (call.op = "encounter_loop") ~> (call.op = "encounter_loop" /\ call.done)

\* a finished loop that has returned two intervals
C29_EncounterLoopWitness ==
    /\ call.op = "encounter_loop"
    /\ call.done
    /\ Len(call.found) >= 2
    /\ EncounterStepsSound

(***************************************************************************)
(* C30: next_event(t, type) returns the smallest event time >= t of the    *)
(* type, or none if there is none; it returns none for every t beyond      *)
(* duration(); and a loop that calls next_event and advances t just past   *)
(* the returned time eventually receives none, for every backend and type. *)
(***************************************************************************)
\* the event times of a type: what events() lists from before the sequence
\* to after it
AllEventTimes(ty) ==
    UNION {{all[k] : k \in 1..Len(all)} :
           all \in EventsBetween(ty, -1, Duration + 2 * SetMax(TimeSteps))}

NextEventAnswerRight ==
    (call.op = "next_event_loop" /\ call.answered) =>
        /\ call.last # None => call.last[1] >= call.asked
        /\ \A e \in AllEventTimes(call.ty) :
              e >= call.asked => (call.last # None /\ call.last[1] <= e)
        /\ call.asked > Duration => call.last = None

C30_NextEventLoopEnds ==
    /\ []NextEventAnswerRight
    /\ (call.op = "next_event_loop") ~> (call.op = "next_event_loop" /\ call.done)

====
